---- MODULE Spec2Model ----
(***************************************************************************)
(* A model of the erb-fmt format pipeline: region segmentation,            *)
(* placeholder substitution, structural HTML emission and composition.     *)
(* Texts are sequences of one-character strings, so that every slice,      *)
(* search and replacement of the TypeScript source is computed on the      *)
(* characters and not assumed.  Positions inside the operators are the     *)
(* 1-based positions of TLA+ sequences; ids and region indexes are the     *)
(* 0-based numbers of the source.                                          *)
(***************************************************************************)
EXTENDS Integers, Sequences, FiniteSets, TLC

VARIABLES
  pc,                   \* position of the run
  source,               \* the template text handed to parseERB
  configInput,          \* the FormatterConfigInput handed to formatERB
  regions,              \* ParsedERB.regions
  placeholderDocument,  \* result of buildPlaceholderDocument
  restored,             \* result of restoreFromPlaceholders
  result,               \* FormatterResult of formatERB
  reformatted,          \* FormatterResult of formatERB on result.output
  htmlPrint,            \* HtmlPrintResult of renderHtmlDocument
  heap,                 \* the objects of the configuration records
  returned,             \* override and returned config of every formatERB call
  rubyIndentCounter,    \* currentRubyIndent of composeOutput
  visited,              \* the placeholders composeOutput has visited
  indentLevel,          \* indentLevel of formatRubyCode
  formattedLines,       \* the lines formatRubyCode has formatted, with what it pushed
  argv,                 \* the arguments handed to runCli
  options,              \* CliOptions of parseCliArguments
  fileSystem,           \* the files runCli reads and writes
  targetFiles,          \* the files resolveTargetFiles found, in order
  nextFile,             \* the index of the next target file of runCli
  stdout,               \* what runCli has printed
  exitCode              \* exitCode of runCli

pipelineVars ==
  <<source, configInput, regions, placeholderDocument, restored, result,
    reformatted, htmlPrint>>

configVars == <<heap, returned>>

indentVars == <<rubyIndentCounter, visited, indentLevel, formattedLines>>

cliVars == <<argv, options, fileSystem, targetFiles, nextFile, stdout, exitCode>>

vars == <<pc, pipelineVars, configVars, indentVars, cliVars>>

----------------------------------------------------------------------------
(* Bounds of the model *)

MaxRegions == 3

MaxFragments == 3

MaxPieces == 2

MaxCalls == 3

MaxDirectives == 5

MaxVisits == 2

MaxAttributes == 2

MaxTargets == 2

MaxConfigFlags == 3

\* rounds of the loop of composeOutput, HTML text and placeholders
MaxSteps == 4

\* lines of the code handed to formatRubyCode
MaxLines == 3

----------------------------------------------------------------------------
(* Text primitives: what the JavaScript string methods used by the source do *)

\* s.startsWith(p, i - 1)
StartsWithAt(s, p, i) ==
  /\ i >= 1
  /\ i + Len(p) - 1 <= Len(s)
  /\ \A k \in 1..Len(p) : s[i + k - 1] = p[k]

\* s.indexOf(p, from - 1) + 1 ; 0 when p does not occur at or after from
IndexOf(s, p, from) ==
  LET hits == {i \in from..(Len(s) - Len(p) + 1) : StartsWithAt(s, p, i)}
  IN IF hits = {} THEN 0 ELSE CHOOSE i \in hits : \A j \in hits : i <= j

\* Math.max(a, b)
Max(a, b) == IF a >= b THEN a ELSE b

\* the number of positions at which p occurs in s
Occurrences(s, p) ==
  Cardinality({i \in 1..(Len(s) - Len(p) + 1) : StartsWithAt(s, p, i)})

\* parts.join("")
RECURSIVE Join(_)
Join(parts) ==
  IF parts = <<>> THEN <<>> ELSE Head(parts) \o Join(Tail(parts))

\* the replacement text of String.prototype.replace(string, string):
\* $$ is a dollar, $& the match, $` the text before it, $' the text after it
RECURSIVE GetSubstitution(_, _, _, _)
GetSubstitution(r, matched, before, after) ==
  IF r = <<>> THEN <<>>
  ELSE IF Head(r) = "$" /\ Len(r) >= 2 /\ r[2] \in {"$", "&", "`", "'"}
  THEN (CASE r[2] = "$" -> <<"$">>
          [] r[2] = "&" -> matched
          [] r[2] = "`" -> before
          [] r[2] = "'" -> after)
       \o GetSubstitution(SubSeq(r, 3, Len(r)), matched, before, after)
  ELSE <<Head(r)>> \o GetSubstitution(Tail(r), matched, before, after)

\* s.replace(p, r) with a string pattern: the first occurrence only
ReplaceFirst(s, p, r) ==
  LET i == IndexOf(s, p, 1)
  IN IF i = 0 THEN s
     ELSE LET before == SubSeq(s, 1, i - 1)
              after == SubSeq(s, i + Len(p), Len(s))
          IN before \o GetSubstitution(r, p, before, after) \o after

Digits == <<"0", "1", "2", "3", "4", "5", "6", "7", "8", "9">>

\* `${id}`: the decimal digits of a non-negative number
RECURSIVE ToDecimal(_)
ToDecimal(n) ==
  IF n < 10 THEN <<Digits[n + 1]>>
  ELSE ToDecimal(n \div 10) \o <<Digits[(n % 10) + 1]>>

----------------------------------------------------------------------------
(* Placeholder builder *)

PLACEHOLDER_PREFIX ==
  <<"_", "_", "E", "R", "B", "_", "P", "L", "A", "C", "E", "H", "O", "L", "D",
    "E", "R", "_">>

PLACEHOLDER_SUFFIX == <<"_", "_">>

createPlaceholderToken(id) ==
  PLACEHOLDER_PREFIX \o ToDecimal(id) \o PLACEHOLDER_SUFFIX

\* a builder that numbers an entry by the position of its region
RECURSIVE PlaceholdersNumberedByRegion(_, _)
PlaceholdersNumberedByRegion(rs, n) ==
  IF n = 0 THEN <<>>
  ELSE LET prev == PlaceholdersNumberedByRegion(rs, n - 1)
       IN IF rs[n].type = "ruby"
          THEN Append(prev, [id |-> n - 1,
                             regionIndex |-> n - 1,
                             region |-> rs[n],
                             placeholder |-> createPlaceholderToken(n - 1)])
          ELSE prev

\* the entries pushed while the first n regions are visited
RECURSIVE PlaceholdersUpTo(_, _)
PlaceholdersUpTo(rs, n) ==
  IF n = 0 THEN <<>>
  ELSE LET prev == PlaceholdersUpTo(rs, n - 1)
       IN IF rs[n].type = "ruby"
          THEN Append(prev, [id |-> Len(prev),
                             regionIndex |-> n - 1,
                             region |-> rs[n],
                             placeholder |-> createPlaceholderToken(Len(prev))])
          ELSE prev

\* the parts pushed while the first n regions are visited
RECURSIVE PartsUpTo(_, _)
PartsUpTo(rs, n) ==
  IF n = 0 THEN <<>>
  ELSE Append(PartsUpTo(rs, n - 1),
              IF rs[n].type = "ruby"
              THEN PlaceholdersUpTo(rs, n)[Len(PlaceholdersUpTo(rs, n))].placeholder
              ELSE rs[n].text)

buildPlaceholderDocument(rs) ==
  [html |-> Join(PartsUpTo(rs, Len(rs))),
   placeholders |-> PlaceholdersUpTo(rs, Len(rs))]

\* placeholders.forEach(entry => result = result.replace(...)) over the first n
RECURSIVE RestoreUpTo(_, _, _)
RestoreUpTo(documentHtml, placeholders, n) ==
  IF n = 0 THEN documentHtml
  ELSE ReplaceFirst(RestoreUpTo(documentHtml, placeholders, n - 1),
                    placeholders[n].placeholder,
                    placeholders[n].region.text)

restoreFromPlaceholders(documentHtml, placeholders) ==
  RestoreUpTo(documentHtml, placeholders, Len(placeholders))

----------------------------------------------------------------------------
(* Regions, as parseERB builds them *)

HtmlRegion(text) ==
  [type |-> "html", text |-> text, flavor |-> "none", code |-> <<>>,
   nodeType |-> "content"]

RubyRegion(flavor, text, code) ==
  [type |-> "ruby", text |-> text, flavor |-> flavor, code |-> code,
   nodeType |-> "directive"]

UnknownRegion(nodeType, text) ==
  [type |-> "unknown", text |-> text, flavor |-> "none", code |-> <<>>,
   nodeType |-> nodeType]

\* region.text of every region, joined in order
RECURSIVE ConcatTexts(_)
ConcatTexts(rs) ==
  IF rs = <<>> THEN <<>> ELSE Head(rs).text \o ConcatTexts(Tail(rs))

----------------------------------------------------------------------------
(* Region segmenter.  templateParser.parse is the embedded-template        *)
(* grammar: a directive runs from "<%", "<%=" or "<%#" to the next "%>",   *)
(* content is everything else ("<%%" is content), and no character is an   *)
(* extra, so the children of the root follow one another.  A directive     *)
(* that is not closed before the end of the text ends there, with a        *)
(* missing close delimiter.                                                *)

WhiteSpace == {" ", "\t", "\n", "\r"}

RECURSIVE TrimStart(_)
TrimStart(s) ==
  IF s # <<>> /\ Head(s) \in WhiteSpace THEN TrimStart(Tail(s)) ELSE s

RECURSIVE TrimEnd(_)
TrimEnd(s) ==
  IF s # <<>> /\ s[Len(s)] \in WhiteSpace
  THEN TrimEnd(SubSeq(s, 1, Len(s) - 1)) ELSE s

\* s.trim()
Trim(s) == TrimEnd(TrimStart(s))

OpenDelimiter == <<"<", "%">>
CloseDelimiter == <<"%", ">">>

\* a directive opens at i
OpensDirective(src, i) ==
  /\ StartsWithAt(src, OpenDelimiter, i)
  /\ ~StartsWithAt(src, <<"<", "%", "%">>, i)

\* the first position at or after i where a directive opens, Len(src) + 1 if none
RECURSIVE NextDirective(_, _)
NextDirective(src, i) ==
  IF i > Len(src) \/ OpensDirective(src, i) THEN i
  ELSE NextDirective(src, i + 1)

\* the child of the template root that starts at i: a node with its type,
\* its first and last position, and the positions of the text between its
\* delimiters (codeFrom > codeTo when there is none; in a comment_directive
\* that text is a node of type comment, not code)
TemplateChildAt(src, i) ==
  IF OpensDirective(src, i)
  THEN LET mark == IF i + 2 <= Len(src) THEN src[i + 2] ELSE ""
           type == CASE mark = "=" -> "output_directive"
                     [] mark = "#" -> "comment_directive"
                     [] OTHER -> "directive"
           codeFrom == IF type = "directive" THEN i + 2 ELSE i + 3
           close == IndexOf(src, CloseDelimiter, codeFrom)
       IN [type |-> type, from |-> i,
           to |-> IF close = 0 THEN Len(src) ELSE close + 1,
           codeFrom |-> codeFrom,
           codeTo |-> IF close = 0 THEN Len(src) ELSE close - 1]
  ELSE [type |-> "content", from |-> i, to |-> NextDirective(src, i) - 1,
        codeFrom |-> 1, codeTo |-> 0]

\* root.namedChildren of templateParser.parse(src), from position i on
RECURSIVE ParseTemplate(_, _)
ParseTemplate(src, i) ==
  IF i > Len(src) THEN <<>>
  ELSE LET child == TemplateChildAt(src, i)
       IN <<child>> \o ParseTemplate(src, child.to + 1)

\* a slice that stops one character before the end of the node
sliceSourceShort(src, from, to) == SubSeq(src, from, to - 1)

\* source.slice(node.startIndex, node.endIndex)
sliceSource(src, from, to) == SubSeq(src, from, to)

mapDirectiveFlavor(type) ==
  CASE type = "directive" -> "logic"
    [] type = "output_directive" -> "output"
    [] type = "comment_directive" -> "comment"
    [] OTHER -> "unknown"

\* the region pushed for one child of the root
RegionOf(src, child) ==
  LET text == sliceSource(src, child.from, child.to)
  IN CASE child.type = "content" -> HtmlRegion(text)
       [] child.type \in {"directive", "output_directive", "comment_directive"} ->
            RubyRegion(mapDirectiveFlavor(child.type), text,
                       IF child.type # "comment_directive"
                          /\ child.codeFrom <= child.codeTo
                       THEN Trim(sliceSource(src, child.codeFrom, child.codeTo))
                       ELSE <<>>)
       [] OTHER -> UnknownRegion(child.type, text)

\* parseERB(source).regions
parseERB(src) ==
  LET children == ParseTemplate(src, 1)
  IN [k \in 1..Len(children) |-> RegionOf(src, children[k])]

----------------------------------------------------------------------------
(* The HTML parse of the placeholder document.  getHtmlParser().parse is   *)
(* the HTML grammar; the model covers start tags with attributes, end      *)
(* tags, void elements, script and style elements, comments and text.     *)
(* White space between nodes belongs to no node and a text node starts and *)
(* ends with a character that is not white space.  An end tag that names   *)
(* an open ancestor ends the elements in between without an error, an end  *)
(* tag that names no open element is an erroneous_end_tag, and an element  *)
(* still open at the end of the text, or a tag that cannot be read, makes  *)
(* the root report an error.                                               *)

Letters ==
  {"a", "b", "c", "d", "e", "f", "g", "h", "i", "j", "k", "l", "m", "n", "o",
   "p", "q", "r", "s", "t", "u", "v", "w", "x", "y", "z",
   "A", "B", "C", "D", "E", "F", "G", "H", "I", "J", "K", "L", "M", "N", "O",
   "P", "Q", "R", "S", "T", "U", "V", "W", "X", "Y", "Z"}

DigitChars == {Digits[k] : k \in 1..10}

TagNameChars == Letters \cup DigitChars \cup {"-", ":"}

\* characters that end an attribute name or an unquoted attribute value
AttributeStops == WhiteSpace \cup {"<", ">", "\"", "'", "/", "="}

\* the first position at or after i whose character is not in cs
RECURSIVE SkipChars(_, _, _)
SkipChars(h, i, cs) ==
  IF i <= Len(h) /\ h[i] \in cs THEN SkipChars(h, i + 1, cs) ELSE i

\* the first position at or after i whose character is in cs
RECURSIVE FindChar(_, _, _)
FindChar(h, i, cs) ==
  IF i <= Len(h) /\ h[i] \notin cs THEN FindChar(h, i + 1, cs) ELSE i

\* the last position at or before i whose character is not white space
RECURSIVE LastNonSpace(_, _)
LastNonSpace(h, i) ==
  IF i >= 1 /\ h[i] \in WhiteSpace THEN LastNonSpace(h, i - 1) ELSE i

HtmlNode(type, from, to) ==
  [type |-> type, from |-> from, to |-> to, tagName |-> <<>>, nameEnd |-> 0,
   attributes |-> <<>>, startTagEnd |-> 0, endTagFrom |-> 0, children |-> <<>>]

\* the attribute nodes of a start tag, read from position i on: name,
\* optionally followed by = and a quoted or unquoted value
RECURSIVE ParseAttributes(_, _, _)
ParseAttributes(h, i0, acc) ==
  LET i == SkipChars(h, i0, WhiteSpace)
  IN IF i > Len(h) THEN [ok |-> FALSE, attributes |-> acc, to |-> i]
     ELSE IF h[i] = ">" THEN [ok |-> TRUE, attributes |-> acc, to |-> i]
     ELSE IF h[i] \in AttributeStops THEN [ok |-> FALSE, attributes |-> acc, to |-> i]
     ELSE LET nameTo == FindChar(h, i, AttributeStops) - 1
              eq == SkipChars(h, nameTo + 1, WhiteSpace)
          IN IF eq > Len(h) \/ h[eq] # "="
             THEN ParseAttributes(h, nameTo + 1,
                                  Append(acc, [from |-> i, to |-> nameTo]))
             ELSE LET v == SkipChars(h, eq + 1, WhiteSpace)
                  IN IF v > Len(h) THEN [ok |-> FALSE, attributes |-> acc, to |-> v]
                     ELSE IF h[v] \in {"\"", "'"}
                     THEN LET q == FindChar(h, v + 1, {h[v]})
                          IN IF q > Len(h)
                             THEN [ok |-> FALSE, attributes |-> acc, to |-> q]
                             ELSE ParseAttributes(h, q + 1,
                                    Append(acc, [from |-> i, to |-> q]))
                     ELSE IF h[v] \in AttributeStops
                     THEN [ok |-> FALSE, attributes |-> acc, to |-> v]
                     ELSE LET vTo == FindChar(h, v, AttributeStops) - 1
                          IN ParseAttributes(h, vTo + 1,
                               Append(acc, [from |-> i, to |-> vTo]))

\* the tags the HTML grammar ends as soon as their start tag is read
VoidTags ==
  {<<"a", "r", "e", "a">>, <<"b", "a", "s", "e">>, <<"b", "a", "s", "e", "f", "o", "n", "t">>, <<"b", "g", "s", "o", "u", "n", "d">>, <<"b", "r">>, <<"c", "o", "l">>, <<"c", "o", "m", "m", "a", "n", "d">>, <<"e", "m", "b", "e", "d">>,
   <<"f", "r", "a", "m", "e">>, <<"h", "r">>, <<"i", "m", "a", "g", "e">>, <<"i", "m", "g">>, <<"i", "n", "p", "u", "t">>, <<"i", "s", "i", "n", "d", "e", "x">>, <<"k", "e", "y", "g", "e", "n">>, <<"l", "i", "n", "k">>,
   <<"m", "e", "n", "u", "i", "t", "e", "m">>, <<"m", "e", "t", "a">>, <<"n", "e", "x", "t", "i", "d">>, <<"p", "a", "r", "a", "m">>, <<"s", "o", "u", "r", "c", "e">>, <<"t", "r", "a", "c", "k">>, <<"w", "b", "r">>}

\* the tags whose content the HTML grammar reads as raw text
RawTextTags == {<<"s", "c", "r", "i", "p", "t">>, <<"s", "t", "y", "l", "e">>}

\* the nodes read from position i on while the elements named in stack are
\* open: the nodes, the position after them, the first position of the end
\* tag that closed the innermost open element (0 when it was not closed by
\* its own end tag) and whether an error was met
RECURSIVE ParseNodes(_, _, _, _, _)
ParseNodes(h, i0, stack, acc, err) ==
  LET i == SkipChars(h, i0, WhiteSpace)
      failed == [nodes |-> Append(acc, HtmlNode("ERROR", i, Len(h))),
                 next |-> Len(h) + 1, endTagFrom |-> 0, error |-> TRUE]
  IN IF i > Len(h)
     THEN [nodes |-> acc, next |-> i, endTagFrom |-> 0,
           error |-> err \/ stack # <<>>]
     ELSE IF h[i] \notin {"<", ">"}
     THEN LET stop == FindChar(h, i, {"<", ">"})
          IN ParseNodes(h, stop, stack,
                        Append(acc, HtmlNode("text", i, LastNonSpace(h, stop - 1))),
                        err)
     ELSE IF h[i] = ">" THEN failed
     ELSE IF StartsWithAt(h, <<"<", "!", "-", "-">>, i)
     THEN LET c == IndexOf(h, <<"-", "-", ">">>, i + 4)
          IN IF c = 0 THEN failed
             ELSE ParseNodes(h, c + 3, stack,
                             Append(acc, HtmlNode("comment", i, c + 2)), err)
     ELSE IF StartsWithAt(h, <<"<", "/">>, i)
     THEN LET nameTo == SkipChars(h, i + 2, TagNameChars) - 1
              name == SubSeq(h, i + 2, nameTo)
              gt == SkipChars(h, nameTo + 1, WhiteSpace)
          IN IF name = <<>> \/ gt > Len(h) \/ h[gt] # ">" THEN failed
             ELSE IF stack # <<>> /\ stack[Len(stack)] = name
             THEN [nodes |-> acc, next |-> gt + 1, endTagFrom |-> i, error |-> err]
             ELSE IF \E k \in 1..Len(stack) : stack[k] = name
             THEN [nodes |-> acc, next |-> i, endTagFrom |-> 0, error |-> err]
             ELSE ParseNodes(h, gt + 1, stack,
                             Append(acc, HtmlNode("erroneous_end_tag", i, gt)), err)
     ELSE LET nameTo == SkipChars(h, i + 1, TagNameChars) - 1
              name == SubSeq(h, i + 1, nameTo)
              \* the element whose start tag is tag and whose content is inner
              Element(tag, inner) ==
                [type |-> IF name = <<"s", "c", "r", "i", "p", "t">>
                          THEN "script_element"
                          ELSE IF name \in RawTextTags
                          THEN "style_element"
                          ELSE "element",
                 from |-> i, to |-> inner.next - 1,
                 tagName |-> name, nameEnd |-> nameTo,
                 attributes |-> tag.attributes,
                 startTagEnd |-> tag.to,
                 endTagFrom |-> inner.endTagFrom,
                 children |-> inner.nodes]
              AfterContent(tag, inner) ==
                ParseNodes(h, inner.next, stack, Append(acc, Element(tag, inner)),
                           err \/ inner.error)
              RawText(tag, close) ==
                [nodes |-> <<>>,
                 next |-> IF close = 0 THEN Len(h) + 1 ELSE close + Len(name) + 3,
                 endTagFrom |-> close, error |-> close = 0]
              AfterStartTag(tag) ==
                IF name = <<>> \/ ~tag.ok THEN failed
                ELSE IF name \in VoidTags
                THEN AfterContent(tag, [nodes |-> <<>>, next |-> tag.to + 1,
                                        endTagFrom |-> 0, error |-> FALSE])
                ELSE IF name \in RawTextTags
                THEN AfterContent(tag,
                       RawText(tag, IndexOf(h, <<"<", "/">> \o name \o <<">">>,
                                            tag.to + 1)))
                ELSE AfterContent(tag,
                       ParseNodes(h, tag.to + 1, Append(stack, name), <<>>, FALSE))
          IN AfterStartTag(ParseAttributes(h, nameTo + 1, <<>>))

\* parser.parse(document.html): the named children of the root and
\* rootNode.hasError
ParseHtml(h) ==
  LET Root(r) == [children |-> r.nodes, hasError |-> r.error]
  IN Root(ParseNodes(h, 1, <<>>, <<>>, FALSE))

----------------------------------------------------------------------------
(* Regular expressions of the formatter, computed on the characters *)

\* \w of a regular expression
WordChars == Letters \cup DigitChars \cup {"_"}

\* what a call that throws leaves instead of a value
Thrown(name) == [thrown |-> name]

IsThrown(value) == "thrown" \in DOMAIN value

\* String.prototype.repeat throws a RangeError when count is negative
RangeError == Thrown("RangeError")

RepeatThrows(count) == count < 0

\* count copies of unit, one after the other: unit.repeat(count) for a count
\* that is not negative
RECURSIVE Repeat(_, _)
Repeat(unit, count) ==
  IF count <= 0 THEN <<>> ELSE unit \o Repeat(unit, count - 1)

\* s.replace(/[cs]+/g, r): every maximal run of characters of cs becomes r
RECURSIVE ReplaceRuns(_, _, _)
ReplaceRuns(s, cs, r) ==
  IF s = <<>> THEN <<>>
  ELSE IF Head(s) \in cs
  THEN r \o ReplaceRuns(SubSeq(s, SkipChars(s, 1, cs), Len(s)), cs, r)
  ELSE <<Head(s)>> \o ReplaceRuns(Tail(s), cs, r)

\* s.replace(/ ?\n ?/g, "\n")
RECURSIVE TrimAroundNewlines(_)
TrimAroundNewlines(s) ==
  IF s = <<>> THEN <<>>
  ELSE LET nl == IF Head(s) = "\n" THEN 1
                 ELSE IF Head(s) = " " /\ Len(s) >= 2 /\ s[2] = "\n" THEN 2
                 ELSE 0
           next == IF nl > 0 /\ nl < Len(s) /\ s[nl + 1] = " "
                   THEN nl + 2 ELSE nl + 1
       IN IF nl = 0 THEN <<Head(s)>> \o TrimAroundNewlines(Tail(s))
          ELSE <<"\n">> \o TrimAroundNewlines(SubSeq(s, next, Len(s)))

\* s.replace(/\r\n/g, "\n")
RECURSIVE CrLfToLf(_)
CrLfToLf(s) ==
  IF s = <<>> THEN <<>>
  ELSE IF Head(s) = "\r" /\ Len(s) >= 2 /\ s[2] = "\n"
  THEN <<"\n">> \o CrLfToLf(SubSeq(s, 3, Len(s)))
  ELSE <<Head(s)>> \o CrLfToLf(Tail(s))

\* s.replace(/\n/g, "\r\n")
RECURSIVE LfToCrLf(_)
LfToCrLf(s) ==
  IF s = <<>> THEN <<>>
  ELSE IF Head(s) = "\n" THEN <<"\r", "\n">> \o LfToCrLf(Tail(s))
  ELSE <<Head(s)>> \o LfToCrLf(Tail(s))

\* a line terminator \r?\n starts at position i
TerminatorAt(s, i) ==
  \/ (i <= Len(s) /\ s[i] = "\n")
  \/ (i < Len(s) /\ s[i] = "\r" /\ s[i + 1] = "\n")

\* s.replace(/[ \t]+(?=\r?\n)/g, "")
RECURSIVE TrimLineEnds(_)
TrimLineEnds(s) ==
  IF s = <<>> THEN <<>>
  ELSE IF Head(s) \in {" ", "\t"}
  THEN LET stop == SkipChars(s, 1, {" ", "\t"})
       IN IF TerminatorAt(s, stop)
          THEN TrimLineEnds(SubSeq(s, stop, Len(s)))
          ELSE SubSeq(s, 1, stop - 1) \o TrimLineEnds(SubSeq(s, stop, Len(s)))
  ELSE <<Head(s)>> \o TrimLineEnds(Tail(s))

\* the first position of the match of /[ \t]+$/ in s, Len(s) + 1 when none
RECURSIVE TrailingBlankFrom(_, _)
TrailingBlankFrom(s, i) ==
  IF i >= 1 /\ s[i] \in {" ", "\t"} THEN TrailingBlankFrom(s, i - 1) ELSE i + 1

\* the first position of the match of /(?:\r?\n)+$/ in s, Len(s) + 1 when none
RECURSIVE TrailingTerminatorsFrom(_, _)
TrailingTerminatorsFrom(s, i) ==
  IF i >= 1 /\ s[i] = "\n"
  THEN IF i >= 2 /\ s[i - 1] = "\r"
       THEN TrailingTerminatorsFrom(s, i - 2)
       ELSE TrailingTerminatorsFrom(s, i - 1)
  ELSE i + 1

\* /^word\b/.test(code)
StartsWithWord(code, word) ==
  /\ StartsWithAt(code, word, 1)
  /\ (Len(code) = Len(word) \/ code[Len(word) + 1] \notin WordChars)

\* /\bword$/.test(code)
EndsWithWord(code, word) ==
  LET at == Len(code) - Len(word) + 1
  IN /\ StartsWithAt(code, word, at)
     /\ (at = 1 \/ code[at - 1] \notin WordChars)

\* /\bdo\s*(\|[^|]*\|\s*)?$/.test(code)
EndsWithDo(code) ==
  LET t == TrimEnd(code)
      bars == {i \in 1..(Len(t) - 1) : t[i] = "|"}
      open == IF bars = {} THEN 0 ELSE CHOOSE i \in bars : \A j \in bars : j <= i
  IN \/ EndsWithWord(t, <<"d", "o">>)
     \/ /\ t # <<>>
        /\ t[Len(t)] = "|"
        /\ open > 0
        /\ EndsWithWord(TrimEnd(SubSeq(t, 1, open - 1)), <<"d", "o">>)

----------------------------------------------------------------------------
(* Analysis of the placeholder document (htmlDocument.ts) *)

INLINE_ELEMENTS ==
  {<<"a">>, <<"a", "b", "b", "r">>, <<"a", "c", "r", "o", "n", "y", "m">>, <<"b">>, <<"b", "d", "o">>, <<"b", "i", "g">>, <<"b", "r">>, <<"b", "u", "t", "t", "o", "n">>, <<"c", "i", "t", "e">>, <<"c", "o", "d", "e">>,
   <<"d", "f", "n">>, <<"e", "m">>, <<"i">>, <<"i", "m", "g">>, <<"i", "n", "p", "u", "t">>, <<"k", "b", "d">>, <<"l", "a", "b", "e", "l">>, <<"m", "a", "r", "k">>, <<"q">>, <<"s", "a", "m", "p">>,
   <<"s", "m", "a", "l", "l">>, <<"s", "p", "a", "n">>, <<"s", "t", "r", "o", "n", "g">>, <<"s", "u", "b">>, <<"s", "u", "p">>, <<"t", "e", "x", "t", "a", "r", "e", "a">>, <<"t", "i", "m", "e">>, <<"v", "a", "r">>}

VOID_ELEMENTS ==
  {<<"a", "r", "e", "a">>, <<"b", "a", "s", "e">>, <<"b", "r">>, <<"c", "o", "l">>, <<"e", "m", "b", "e", "d">>, <<"h", "r">>, <<"i", "m", "g">>, <<"i", "n", "p", "u", "t">>, <<"l", "i", "n", "k">>,
   <<"m", "e", "t", "a">>, <<"p", "a", "r", "a", "m">>, <<"s", "o", "u", "r", "c", "e">>, <<"t", "r", "a", "c", "k">>, <<"w", "b", "r">>}

WHITESPACE_SENSITIVE_ELEMENTS == {<<"p", "r", "e">>, <<"c", "o", "d", "e">>, <<"t", "e", "x", "t", "a", "r", "e", "a">>, <<"s", "c", "r", "i", "p", "t">>, <<"s", "t", "y", "l", "e">>}

\* the length of the match of /__ERB_PLACEHOLDER_(\d+)__/ that starts at
\* position i of s, 0 when there is none
TokenLengthAt(s, i) ==
  LET d == i + Len(PLACEHOLDER_PREFIX)
      e == SkipChars(s, d, DigitChars)
  IN IF StartsWithAt(s, PLACEHOLDER_PREFIX, i) /\ e > d
        /\ StartsWithAt(s, PLACEHOLDER_SUFFIX, e)
     THEN e + Len(PLACEHOLDER_SUFFIX) - i
     ELSE 0

\* the matches of the global token pattern in s from position i on, each with
\* its first and last position
RECURSIVE TokenMatches(_, _)
TokenMatches(s, i) ==
  IF i > Len(s) THEN <<>>
  ELSE IF TokenLengthAt(s, i) = 0 THEN TokenMatches(s, i + 1)
  ELSE <<[from |-> i, to |-> i + TokenLengthAt(s, i) - 1]>>
       \o TokenMatches(s, i + TokenLengthAt(s, i))

\* the digits a match captured
CapturedDigits(s, m) ==
  SubSeq(s, m.from + Len(PLACEHOLDER_PREFIX), m.to - Len(PLACEHOLDER_SUFFIX))

NoContext ==
  [elementDepth |-> 0, inAttribute |-> FALSE, insideSensitive |-> FALSE,
   parentElementName |-> <<>>]

\* computeContext and findParentElementName of the node that spans the
\* positions from..to: the walk from that node to the root, computed from the
\* root down through the nodes that span the positions
RECURSIVE computeContext(_, _, _)
computeContext(nodes, from, to) ==
  LET hits == {k \in 1..Len(nodes) : nodes[k].from <= from /\ to <= nodes[k].to}
      node == nodes[CHOOSE k \in hits : TRUE]
      inner == computeContext(node.children, from, to)
      isElement == node.type = "element"
  IN IF hits = {} THEN NoContext
     ELSE [elementDepth |-> inner.elementDepth + (IF isElement THEN 1 ELSE 0),
           inAttribute |->
             \/ inner.inAttribute
             \/ \E k \in 1..Len(node.attributes) :
                  node.attributes[k].from <= from /\ to <= node.attributes[k].to,
           insideSensitive |->
             \/ inner.insideSensitive
             \/ (isElement /\ node.tagName \in WHITESPACE_SENSITIVE_ELEMENTS),
           parentElementName |->
             IF inner.elementDepth > 0 THEN inner.parentElementName
             ELSE IF isElement THEN node.tagName
             ELSE <<>>]

HtmlDiagnostic(message, severity, entryIndex) ==
  [message |-> message, severity |-> severity, entryIndex |-> entryIndex]

\* document.placeholders.forEach of analyzePlaceholderDocument, from entry k on
RECURSIVE AnalyzeEntries(_, _, _, _, _)
AnalyzeEntries(document, tree, k, searchIndex, acc) ==
  IF k > Len(document.placeholders) THEN acc
  ELSE LET entry == document.placeholders[k]
           matchIndex == IndexOf(document.html, entry.placeholder, searchIndex)
           endIndex == matchIndex + Len(entry.placeholder)
           context == computeContext(tree.children, matchIndex, endIndex - 1)
       IN IF matchIndex = 0
          THEN AnalyzeEntries(document, tree, k + 1, searchIndex,
                 [acc EXCEPT !.diagnostics =
                    Append(@, HtmlDiagnostic("Placeholder token not found",
                                             "error", entry.regionIndex))])
          ELSE AnalyzeEntries(document, tree, k + 1, endIndex,
                 [acc EXCEPT !.placeholders =
                    Append(@, [entry |-> entry,
                               startIndex |-> matchIndex - 1,
                               endIndex |-> endIndex - 1,
                               elementDepth |-> context.elementDepth,
                               inAttribute |-> context.inAttribute,
                               insideSensitive |-> context.insideSensitive,
                               parentElementName |-> context.parentElementName])])

analyzePlaceholderDocument(document) ==
  LET Analyze(tree) ==
        AnalyzeEntries(document, tree, 1, 1,
          [tree |-> tree,
           placeholders |-> <<>>,
           diagnostics |->
             IF tree.hasError
             THEN <<HtmlDiagnostic(
                      "HTML parse reported syntax errors in placeholder document",
                      "error", -1)>>
             ELSE <<>>])
  IN Analyze(ParseHtml(document.html))

----------------------------------------------------------------------------
(* Structural emission (htmlDocument.ts, renderHtmlDocument).  R holds the *)
(* arguments of renderHtmlDocument that its inner functions close over;    *)
(* every print function gives the text it returns and the print infos it   *)
(* pushes, in the order it pushes them.                                    *)

\* lineWidth: null
NullLineWidth == -1

Printed(html, infos) == [html |-> html, placeholderPrintInfo |-> infos]

\* indent(level)
Indent(R, level) == Repeat(R.indentUnit, level)

\* parts.join(sep)
RECURSIVE JoinWith(_, _)
JoinWith(parts, sep) ==
  IF parts = <<>> THEN <<>>
  ELSE IF Len(parts) = 1 THEN parts[1]
  ELSE parts[1] \o sep \o JoinWith(Tail(parts), sep)

\* s.endsWith(p)
EndsWith(s, p) == StartsWithAt(s, p, Len(s) - Len(p) + 1)

\* placeholderInfoByToken.has(token)
HasInfo(R, token) ==
  \E k \in 1..Len(R.placeholders) : R.placeholders[k].entry.placeholder = token

\* placeholderInfoByToken.get(token): the info set last for the token
InfoByToken(R, token) ==
  LET ks == {k \in 1..Len(R.placeholders) :
               R.placeholders[k].entry.placeholder = token}
  IN R.placeholders[CHOOSE k \in ks : \A j \in ks : j <= k]

\* the print infos pushed for the tokens of text that have an info, in order
PrintInfosIn(R, text, level, inline, inAttribute, sensitive, orInsideSensitive) ==
  LET Push(info) ==
        [entry |-> info.entry,
         indentationLevel |-> level,
         inline |-> inline,
         inAttribute |-> inAttribute,
         sensitive |-> sensitive \/ (orInsideSensitive /\ info.insideSensitive)]
      PushAll(found) ==
        [k \in 1..Len(found) |->
           Push(InfoByToken(R, SubSeq(text, found[k].from, found[k].to)))]
  IN PushAll(SelectSeq(TokenMatches(text, 1),
                       LAMBDA m : HasInfo(R, SubSeq(text, m.from, m.to))))

registerAttributePlaceholders(R, text) ==
  PrintInfosIn(R, text, 0, TRUE, TRUE, FALSE, FALSE)

registerPlaceholdersInSlice(R, startIndex, endIndex, depth, inline, sensitive) ==
  PrintInfosIn(R, SubSeq(R.documentHtml, startIndex, endIndex), depth, inline,
               FALSE, TRUE, FALSE)

normalizeAttributeValueContent(content) ==
  ReplaceRuns(Trim(content), WhiteSpace, <<" ">>)

normalizeAttributeValue(value) ==
  IF value[1] \in {"\"", "'"} /\ value[Len(value)] = value[1]
  THEN <<value[1]>>
       \o normalizeAttributeValueContent(SubSeq(value, 2, Len(value) - 1))
       \o <<value[1]>>
  ELSE normalizeAttributeValueContent(value)

\* formatAttribute of an attribute node with its first and last position
formatAttribute(R, attribute) ==
  LET raw == Trim(SubSeq(R.documentHtml, attribute.from, attribute.to))
      assignmentIndex == IndexOf(raw, <<"=">>, 1)
      name == Trim(SubSeq(raw, 1, assignmentIndex - 1))
      value == Trim(SubSeq(raw, assignmentIndex + 1, Len(raw)))
  IN IF raw = <<>> THEN <<>>
     ELSE IF assignmentIndex = 0 \/ name = <<>>
     THEN ReplaceRuns(raw, WhiteSpace, <<" ">>)
     ELSE IF value = <<>> THEN name
     ELSE name \o <<"=">> \o normalizeAttributeValue(value)

\* captureOriginalAttributes: from the end of the tag name to the end of the
\* last attribute
captureOriginalAttributes(R, node) ==
  SubSeq(R.documentHtml, node.nameEnd + 1,
         node.attributes[Len(node.attributes)].to)

collectAttributes(R, node, depth) ==
  LET attributeNodes == node.attributes
      originalAttributesText == captureOriginalAttributes(R, node)
      originalHadLineBreak == IndexOf(originalAttributesText, <<"\n">>, 1) # 0
      \* the text of the attributes, given the formatted attributes and their
      \* inline suffix
      Text(formattedAttributes, inlineSuffix) ==
        LET hasFailedFormatting ==
              \E k \in 1..Len(formattedAttributes) : formattedAttributes[k] = <<>>
            baseLength == Len(Indent(R, depth)) + 1 + Len(node.tagName)
                          + Len(inlineSuffix) + 1
            wrapped ==
              <<"\n">>
              \o JoinWith([k \in 1..Len(formattedAttributes) |->
                             Indent(R, depth + 1) \o formattedAttributes[k]],
                          <<"\n">>)
              \o <<"\n">> \o Indent(R, depth)
            shouldForceMultiline ==
              \/ R.attributeWrapping = "force-multi-line"
              \/ /\ R.attributeWrapping = "auto"
                 /\ \/ originalHadLineBreak
                    \/ (R.lineWidth # NullLineWidth /\ baseLength > R.lineWidth)
        IN IF hasFailedFormatting THEN originalAttributesText
           ELSE IF R.attributeWrapping = "preserve"
           THEN IF originalHadLineBreak THEN wrapped ELSE inlineSuffix
           ELSE IF shouldForceMultiline THEN wrapped
           ELSE inlineSuffix
      Formatted(formattedAttributes) ==
        Text(formattedAttributes,
             <<" ">> \o JoinWith(formattedAttributes, <<" ">>))
      Collected(text) == Printed(text, registerAttributePlaceholders(R, text))
  IN IF attributeNodes = <<>> THEN Printed(<<>>, <<>>)
     ELSE Collected(Formatted([k \in 1..Len(attributeNodes) |->
                                 formatAttribute(R, attributeNodes[k])]))

printTextNode(R, node, depth, parentInline, sensitive) ==
  LET text == SubSeq(R.documentHtml, node.from, node.to)
      collapsed ==
        IF R.collapseWhitespace = "preserve" THEN text
        ELSE IF parentInline THEN Trim(ReplaceRuns(text, WhiteSpace, <<" ">>))
        ELSE Trim(ReplaceRuns(
                    TrimAroundNewlines(ReplaceRuns(text, {" ", "\t"}, <<" ">>)),
                    {"\n"}, <<"\n">>))
      WithInfos(infos) ==
        IF sensitive THEN Printed(text, infos)
        ELSE IF Trim(text) = <<>> \/ collapsed = <<>> THEN Printed(<<>>, infos)
        ELSE IF parentInline THEN Printed(collapsed, infos)
        ELSE Printed(Indent(R, depth) \o collapsed \o <<"\n">>, infos)
  IN WithInfos(PrintInfosIn(R, text, depth, parentInline, FALSE, sensitive, TRUE))

RECURSIVE printNode(_, _, _, _, _)
RECURSIVE printElement(_, _, _, _, _)
RECURSIVE PrintNodes(_, _, _, _, _, _)

\* the nodes from the k-th on, printed one after the other
PrintNodes(R, nodes, k, depth, parentInline, sensitiveContext) ==
  IF k > Len(nodes) THEN Printed(<<>>, <<>>)
  ELSE LET Both(first, rest) ==
             Printed(first.html \o rest.html,
                     first.placeholderPrintInfo \o rest.placeholderPrintInfo)
       IN Both(printNode(R, nodes[k], depth, parentInline, sensitiveContext),
               PrintNodes(R, nodes, k + 1, depth, parentInline, sensitiveContext))

printElement(R, node, depth, parentInline, parentSensitive) ==
  LET tagName == node.tagName
      inline == tagName \in INLINE_ELEMENTS
      voidElement == tagName \in VOID_ELEMENTS
      sensitive == parentSensitive \/ tagName \in WHITESPACE_SENSITIVE_ELEMENTS
      innerStart == node.startTagEnd + 1
      innerEnd == IF node.endTagFrom # 0 THEN node.endTagFrom - 1
                  ELSE node.startTagEnd
      rawInnerContent == SubSeq(R.documentHtml, innerStart, innerEnd)
      closingIndent == Indent(R, depth)
      innerContent ==
        IF Len(closingIndent) > 0
           /\ EndsWith(rawInnerContent, <<"\n">> \o closingIndent)
        THEN SubSeq(rawInnerContent, 1, Len(rawInnerContent) - Len(closingIndent))
        ELSE rawInnerContent
      OpenTag(attributes) ==
        Indent(R, depth) \o <<"<">> \o tagName \o attributes.html \o <<">">>
      closeTag == <<"<", "/">> \o tagName \o <<">", "\n">>
      children == node.children
      WithOnlyText(attributes, onlyText) ==
        Printed(OpenTag(attributes) \o Trim(onlyText.html) \o closeTag,
                attributes.placeholderPrintInfo \o onlyText.placeholderPrintInfo)
      WithChildren(attributes, printed) ==
        Printed(OpenTag(attributes) \o (IF inline THEN <<>> ELSE <<"\n">>)
                \o printed.html
                \o (IF inline THEN <<>> ELSE Indent(R, depth))
                \o closeTag,
                attributes.placeholderPrintInfo \o printed.placeholderPrintInfo)
      WithAttributes(attributes) ==
        IF sensitive
        THEN Printed(
               OpenTag(attributes)
               \o (IF innerContent = <<>> THEN <<"\n">>
                   ELSE (IF Head(innerContent) # "\n" THEN <<"\n">> ELSE <<>>)
                        \o innerContent
                        \o (IF innerContent[Len(innerContent)] # "\n"
                            THEN <<"\n">> ELSE <<>>))
               \o Indent(R, depth) \o closeTag,
               attributes.placeholderPrintInfo
               \o registerPlaceholdersInSlice(R, innerStart, innerEnd, depth + 1,
                                              inline, TRUE))
        ELSE IF voidElement
        THEN Printed(OpenTag(attributes) \o <<"\n">>,
                     attributes.placeholderPrintInfo)
        ELSE IF children = <<>>
        THEN Printed(OpenTag(attributes) \o closeTag,
                     attributes.placeholderPrintInfo)
        ELSE IF Len(children) = 1 /\ children[1].type = "text"
        THEN WithOnlyText(attributes,
                          printTextNode(R, children[1], depth + 1, TRUE, sensitive))
        ELSE WithChildren(attributes,
                          PrintNodes(R, children, 1, depth + 1, inline, sensitive))
  IN WithAttributes(collectAttributes(R, node, depth))

printNode(R, node, depth, parentInline, sensitiveContext) ==
  LET text == Trim(SubSeq(R.documentHtml, node.from, node.to))
  IN CASE node.type = "element" ->
            printElement(R, node, depth, parentInline, sensitiveContext)
       [] node.type \in {"self_closing_tag", "erroneous_end_tag",
                         "script_element", "style_element", "doctype",
                         "comment"} ->
            Printed(Indent(R, depth) \o text \o <<"\n">>, <<>>)
       [] node.type = "text" ->
            printTextNode(R, node, depth, parentInline, sensitiveContext)
       [] OTHER ->
            IF text = <<>> THEN Printed(<<>>, <<>>)
            ELSE Printed(Indent(R, depth) \o text \o <<"\n">>, <<>>)

\* " ".repeat(indentSize) is evaluated first when the style is not tab
renderHtmlDocument(analysis, documentHtml, indentSize, indentStyle, collapseWhitespace, lineWidth, attributeWrapping) ==
  LET R == [documentHtml |-> documentHtml,
            indentUnit |-> IF indentStyle = "tab" THEN <<"\t">>
                           ELSE Repeat(<<" ">>, indentSize),
            collapseWhitespace |-> collapseWhitespace,
            lineWidth |-> lineWidth,
            attributeWrapping |-> attributeWrapping,
            placeholders |-> analysis.placeholders]
  IN IF indentStyle # "tab" /\ RepeatThrows(indentSize) THEN RangeError
     ELSE PrintNodes(R, analysis.tree.children, 1, 0, FALSE, FALSE)

----------------------------------------------------------------------------
(* Formatter configuration (index.ts) *)

DEFAULT_FORMATTER_CONFIG ==
  [indentation |-> [size |-> 2, style |-> "space", continuation |-> 2],
   newline |-> "lf",
   whitespace |-> [trimTrailingWhitespace |-> TRUE, ensureFinalNewline |-> TRUE],
   html |-> [collapseWhitespace |-> "conservative", lineWidth |-> 100,
             attributeWrapping |-> "preserve"],
   ruby |-> [alignBlockEnds |-> TRUE, finalNewline |-> "preserve",
             inlineGuardStyle |-> "preserve"]]

\* the keys of FormatterConfig whose values are objects
ObjectKeys == {"indentation", "whitespace", "html", "ruby"}

\* deepMergeInto on a target and an override that are both plain objects: a
\* key of the override replaces the target's value, unless both values are
\* objects, which are merged key by key
deepMergeInto(target, override) ==
  [k \in DOMAIN target \cup DOMAIN override |->
     IF k \notin DOMAIN override THEN target[k]
     ELSE IF k \in DOMAIN target /\ k \in ObjectKeys
     THEN [j \in DOMAIN target[k] \cup DOMAIN override[k] |->
             IF j \in DOMAIN override[k] THEN override[k][j] ELSE target[k][j]]
     ELSE override[k]]

\* no override is the empty record
NoOverride == [k \in {} |-> {}]

mergeConfig(defaults, override) == deepMergeInto(defaults, override)

----------------------------------------------------------------------------
(* The configuration records as objects (index.ts, mergeConfig).  An       *)
(* object of the heap is a function from its keys to cells; a cell holds   *)
(* either a reference to an object of the heap or a value that is not an   *)
(* object.  The heap starts with the objects of DEFAULT_FORMATTER_CONFIG,  *)
(* every call of formatERB adds the caller's override and the clone that   *)
(* mergeConfig builds and returns.                                         *)

RefCell(id) == [ref |-> id]

ValueCell(v) == [value |-> v]

\* isPlainObject(value)
isPlainObject(cell) == "ref" \in DOMAIN cell

\* the objects of a configuration record written as an object literal: one
\* object for every key that holds an object, then the record itself
RECURSIVE AllocateEntries(_, _, _, _)
AllocateEntries(h, record, keys, object) ==
  IF keys = {} THEN [heap |-> Append(h, object), cell |-> RefCell(Len(h) + 1)]
  ELSE LET key == CHOOSE k \in keys : TRUE
           Put(inner) ==
             AllocateEntries(inner.heap, record, keys \ {key},
                             (key :> inner.cell) @@ object)
       IN IF key \in ObjectKeys
          THEN Put(AllocateEntries(h, record[key], DOMAIN record[key], <<>>))
          ELSE AllocateEntries(h, record, keys \ {key},
                               (key :> ValueCell(record[key])) @@ object)

AllocateConfig(h, record) == AllocateEntries(h, record, DOMAIN record, <<>>)

\* the cell of the module's DEFAULT_FORMATTER_CONFIG
DefaultsCell == AllocateConfig(<<>>, DEFAULT_FORMATTER_CONFIG).cell

\* the record a cell stands for
RECURSIVE Deref(_, _)
Deref(h, cell) ==
  IF isPlainObject(cell)
  THEN [k \in DOMAIN h[cell.ref] |-> Deref(h, h[cell.ref][k])]
  ELSE cell.value

RECURSIVE deepClone(_, _)
RECURSIVE CloneEntries(_, _, _, _)

\* the loop of deepClone over Object.entries(input)
CloneEntries(h, input, keys, clone) ==
  IF keys = {} THEN [heap |-> Append(h, clone), cell |-> RefCell(Len(h) + 1)]
  ELSE LET key == CHOOSE k \in keys : TRUE
           Put(inner) ==
             CloneEntries(inner.heap, input, keys \ {key},
                          (key :> inner.cell) @@ clone)
       IN Put(deepClone(h, input[key]))

\* a copy that shares its input's objects
deepCloneShared(h, cell) == [heap |-> h, cell |-> cell]

deepClone(h, cell) ==
  IF isPlainObject(cell)
  THEN CloneEntries(h, h[cell.ref], DOMAIN h[cell.ref], <<>>)
  ELSE [heap |-> h, cell |-> cell]

\* deepMergeInto(target, override) on the objects target and override of the
\* heap: the loop over the keys of override that are left
RECURSIVE deepMergeIntoHeap(_, _, _, _)
deepMergeIntoHeap(h, target, override, keys) ==
  IF keys = {} THEN h
  ELSE LET key == CHOOSE k \in keys : TRUE
           value == h[override][key]
           Assign(clone) ==
             deepMergeIntoHeap(
               [clone.heap EXCEPT ![target] = (key :> clone.cell) @@ @],
               target, override, keys \ {key})
           Merged(inner) ==
             deepMergeIntoHeap(inner, target, override, keys \ {key})
       IN IF key \in DOMAIN h[target] /\ isPlainObject(h[target][key])
             /\ isPlainObject(value)
          THEN Merged(deepMergeIntoHeap(h, h[target][key].ref, value.ref,
                                        DOMAIN h[value.ref]))
          ELSE Assign(deepClone(h, value))

\* mergeConfig(defaults, override) on the heap: the heap after the call and
\* the cell of the record it returns
mergeConfigHeap(h, defaults, hasOverride, override) ==
  LET Merge(baseline) ==
        IF ~hasOverride THEN baseline
        ELSE [heap |-> deepMergeIntoHeap(baseline.heap, baseline.cell.ref,
                                         override.ref,
                                         DOMAIN baseline.heap[override.ref]),
              cell |-> baseline.cell]
  IN Merge(deepClone(h, defaults))

----------------------------------------------------------------------------
(* Indentation effect of a logic directive (index.ts).  region.tree is the *)
(* Ruby grammar's parse of the code; the model gives the significant node  *)
(* of a directive that opens with a block keyword the type of that         *)
(* keyword, a directive that ends with do the type call with a do_block,   *)
(* and every other directive an identifier or no node at all, which        *)
(* classifyRubyNode leaves to classifyByKeyword.                           *)

ZERO_INDENTATION_EFFECT == [before |-> 0, after |-> 0]

BlockKeywords ==
  {<<"i", "f">>, <<"u", "n", "l", "e", "s", "s">>, <<"w", "h", "i", "l", "e">>, <<"u", "n", "t", "i", "l">>, <<"f", "o", "r">>, <<"c", "a", "s", "e">>, <<"b", "e", "g", "i", "n">>, <<"c", "l", "a", "s", "s">>,
   <<"m", "o", "d", "u", "l", "e">>, <<"d", "e", "f">>}

ClauseKeywords == {<<"e", "l", "s", "e">>, <<"e", "l", "s", "i", "f">>, <<"w", "h", "e", "n">>, <<"r", "e", "s", "c", "u", "e">>, <<"e", "n", "s", "u", "r", "e">>}

\* the node extractSignificantRubyNode returns: its type ("null" when there
\* is none), the text of its method field and the type of its block field
RubyNode(type, method, block) ==
  [type |-> type, method |-> method, block |-> block]

NodeTypeOf(w) ==
  CASE w = <<"i", "f">> -> "if" [] w = <<"u", "n", "l", "e", "s", "s">> -> "unless" [] w = <<"w", "h", "i", "l", "e">> -> "while"
    [] w = <<"u", "n", "t", "i", "l">> -> "until" [] w = <<"f", "o", "r">> -> "for" [] w = <<"c", "a", "s", "e">> -> "case"
    [] w = <<"b", "e", "g", "i", "n">> -> "begin" [] w = <<"c", "l", "a", "s", "s">> -> "class"
    [] w = <<"m", "o", "d", "u", "l", "e">> -> "module" [] OTHER -> "def"

extractSignificantRubyNode(code) ==
  IF \E w \in BlockKeywords : StartsWithWord(code, w)
  THEN RubyNode(NodeTypeOf(CHOOSE w \in BlockKeywords : StartsWithWord(code, w)),
                <<>>, "null")
  ELSE IF StartsWithWord(code, <<"e", "n", "d">>)
          \/ \E w \in ClauseKeywords : StartsWithWord(code, w)
  THEN RubyNode("null", <<>>, "null")
  ELSE IF EndsWithDo(code) THEN RubyNode("call", <<>>, "do_block")
  ELSE RubyNode("identifier", <<>>, "null")

\* the node types classifyRubyNode has a case for
ClassifiedNodeTypes ==
  {"if", "unless", "while", "until", "for", "case", "begin", "class", "module",
   "method", "def", "if_statement", "if_modifier", "unless_modifier",
   "while_modifier", "until_modifier", "rescue", "ensure", "else", "when",
   "do_block", "block", "call"}

\* the effect classifyRubyNode returns for a node of a classified type
classifyRubyNode(node) ==
  CASE node.type \in {"if", "unless", "while", "until", "for", "case", "begin",
                      "class", "module", "method", "def", "if_statement"} ->
         [before |-> 0, after |-> 1]
    [] node.type \in {"if_modifier", "unless_modifier", "while_modifier",
                      "until_modifier"} -> ZERO_INDENTATION_EFFECT
    [] node.type \in {"rescue", "ensure", "else", "when"} ->
         [before |-> -1, after |-> 1]
    [] node.type \in {"do_block", "block"} -> [before |-> 0, after |-> 1]
    [] node.type = "call" ->
         IF node.method \in {<<"e", "l", "s", "i", "f">>, <<"w", "h", "e", "n">>, <<"r", "e", "s", "c", "u", "e">>, <<"e", "n", "s", "u", "r", "e">>}
         THEN [before |-> -1, after |-> 1]
         ELSE IF node.block \in {"do_block", "block"}
         THEN [before |-> 0, after |-> 1]
         ELSE ZERO_INDENTATION_EFFECT
    [] OTHER -> ZERO_INDENTATION_EFFECT

\* a keyword classification that finds no effect
classifyByKeywordNone(code) == ZERO_INDENTATION_EFFECT

classifyByKeyword(code) ==
  IF StartsWithWord(code, <<"e", "n", "d">>) THEN [before |-> -1, after |-> 0]
  ELSE IF \E w \in ClauseKeywords : StartsWithWord(code, w)
  THEN [before |-> -1, after |-> 1]
  ELSE IF \E w \in BlockKeywords \cup {<<"m", "e", "t", "h", "o", "d">>} : StartsWithWord(code, w)
  THEN [before |-> 0, after |-> 1]
  ELSE IF EndsWithDo(code) THEN [before |-> 0, after |-> 1]
  ELSE ZERO_INDENTATION_EFFECT

analyzeRubyIndentation(region) ==
  LET code == Trim(region.code)
      Classify(node) ==
        IF node.type \in ClassifiedNodeTypes THEN classifyRubyNode(node)
        ELSE classifyByKeyword(code)
  IN IF code = <<>> THEN ZERO_INDENTATION_EFFECT
     ELSE Classify(extractSignificantRubyNode(code))

\* an indent that is not clamped
clampIndentNone(value) == value

clampIndent(value) == IF value < 0 THEN 0 ELSE value

----------------------------------------------------------------------------
(* Segment texts (index.ts) *)

IndentUnit(cfg) ==
  IF cfg.indentation.style = "tab" THEN <<"\t">>
  ELSE Repeat(<<" ">>, cfg.indentation.size)

normalizeSegmentText(text, cfg) ==
  LET a == IF cfg.newline # "preserve" THEN CrLfToLf(text) ELSE text
      b == IF cfg.whitespace.trimTrailingWhitespace THEN TrimLineEnds(a) ELSE a
  IN IF cfg.newline = "crlf" THEN LfToCrLf(b) ELSE b

\* formatLine of applyIndentation
formatLine(line, isFirstLine, indent, indentFirstLine) ==
  LET trimmed == SubSeq(line, SkipChars(line, 1, {" ", "\t"}), Len(line))
  IN IF trimmed = <<>> THEN <<>>
     ELSE IF isFirstLine /\ ~indentFirstLine THEN trimmed
     ELSE indent \o trimmed

\* the loop of applyIndentation over the matches of /\r?\n/g, from position i
RECURSIVE ApplyIndentationFrom(_, _, _, _, _)
ApplyIndentationFrom(text, i, isFirstLine, indent, indentFirstLine) ==
  LET nl == IndexOf(text, <<"\n">>, i)
      at == IF nl > i /\ text[nl - 1] = "\r" THEN nl - 1 ELSE nl
  IN IF nl = 0
     THEN IF i <= Len(text)
          THEN formatLine(SubSeq(text, i, Len(text)), isFirstLine, indent,
                          indentFirstLine)
          ELSE <<>>
     ELSE formatLine(SubSeq(text, i, at - 1), isFirstLine, indent, indentFirstLine)
          \o SubSeq(text, at, nl)
          \o ApplyIndentationFrom(text, nl + 1, FALSE, indent, indentFirstLine)

applyIndentation(text, level, cfg, indentFirstLine) ==
  ApplyIndentationFrom(text, 1, TRUE, Repeat(IndentUnit(cfg), level),
                       indentFirstLine)

\* text.replace(/(\n)([ \t]*)(?=\S)/g, newline + indentAddition + spaces)
RECURSIVE IndentAfterNewlines(_, _)
IndentAfterNewlines(text, indentAddition) ==
  IF text = <<>> THEN <<>>
  ELSE IF Head(text) = "\n"
  THEN LET stop == SkipChars(text, 2, {" ", "\t"})
       IN IF stop <= Len(text) /\ text[stop] \notin WhiteSpace
          THEN <<"\n">> \o indentAddition \o SubSeq(text, 2, stop - 1)
               \o IndentAfterNewlines(SubSeq(text, stop, Len(text)), indentAddition)
          ELSE <<"\n">> \o IndentAfterNewlines(Tail(text), indentAddition)
  ELSE <<Head(text)>> \o IndentAfterNewlines(Tail(text), indentAddition)

adjustHtmlSegmentUnchanged(text, rubyIndentLevel, indentUnit) == text

adjustHtmlSegment(text, rubyIndentLevel, indentUnit) ==
  IF rubyIndentLevel <= 0 THEN text
  ELSE IndentAfterNewlines(text, Repeat(indentUnit, rubyIndentLevel))

\* a segment format that treats every placeholder as block-level
formatRubyPlaceholderSegmentAsBlock(info, currentRubyIndent, cfg, indentUnit) ==
  LET region == info.entry.region
      Format(effects) ==
        [formatted |->
           applyIndentation(normalizeSegmentText(region.text, cfg),
                            clampIndent(info.indentationLevel
                                        + clampIndent(currentRubyIndent
                                                      + effects.before)),
                            cfg, TRUE),
         indentationLevel |->
           clampIndent(info.indentationLevel
                       + clampIndent(currentRubyIndent + effects.before)),
         mode |-> "ruby-normalized",
         nextIndent |->
           clampIndent(clampIndent(currentRubyIndent + effects.before)
                       + effects.after)]
  IN Format(IF region.flavor = "logic" THEN analyzeRubyIndentation(region)
            ELSE ZERO_INDENTATION_EFFECT)

\* the result of formatRubyPlaceholderSegment for one print info
formatRubyPlaceholderSegment(info, currentRubyIndent, cfg, indentUnit) ==
  LET region == info.entry.region
      Format(effects) ==
        LET rubyIndentLevel == clampIndent(currentRubyIndent + effects.before)
            totalIndentLevel == clampIndent(info.indentationLevel + rubyIndentLevel)
        IN IF info.inline \/ info.inAttribute
           THEN [formatted |-> Trim(region.text), indentationLevel |-> 0,
                 mode |-> "ruby-normalized", nextIndent |-> currentRubyIndent]
           ELSE [formatted |->
                   applyIndentation(normalizeSegmentText(region.text, cfg),
                                    totalIndentLevel, cfg, TRUE),
                 indentationLevel |-> totalIndentLevel,
                 mode |-> "ruby-normalized",
                 nextIndent |-> IF region.flavor = "logic"
                                THEN clampIndent(rubyIndentLevel + effects.after)
                                ELSE currentRubyIndent]
  IN Format(IF region.flavor = "logic" THEN analyzeRubyIndentation(region)
            ELSE ZERO_INDENTATION_EFFECT)

resolveLineEnding(segments, cfg) ==
  IF cfg.newline = "lf" THEN <<"\n">>
  ELSE IF cfg.newline = "crlf" THEN <<"\r", "\n">>
  ELSE IF \E k \in 1..Len(segments) :
            IndexOf(segments[k].formatted, <<"\r", "\n">>, 1) # 0
  THEN <<"\r", "\n">>
  ELSE <<"\n">>

\* the segments after ensureFinalNewline
ensureFinalNewline(segments, cfg) ==
  IF ~cfg.whitespace.ensureFinalNewline \/ Len(segments) = 0 THEN segments
  ELSE LET eol == resolveLineEnding(segments, cfg)
           last == segments[Len(segments)].formatted
           kept == IF cfg.whitespace.trimTrailingWhitespace
                   THEN SubSeq(last, 1, TrailingBlankFrom(last, Len(last)) - 1)
                   ELSE last
           from == TrailingTerminatorsFrom(kept, Len(kept))
           trailing == SubSeq(kept, from, Len(kept))
           nextText == IF trailing = eol THEN kept
                       ELSE SubSeq(kept, 1, from - 1) \o eol
       IN [segments EXCEPT ![Len(segments)].formatted = nextText]

----------------------------------------------------------------------------
(* Composition (index.ts, composeOutput and formatERB) *)

\* Number.parseInt(digits, 10)
RECURSIVE ParseDecimal(_)
ParseDecimal(ds) ==
  IF ds = <<>> THEN 0
  ELSE 10 * ParseDecimal(SubSeq(ds, 1, Len(ds) - 1))
       + (CHOOSE d \in 0..9 : Digits[d + 1] = ds[Len(ds)])

FormatSegment(index, kind, formatted, indentationLevel, mode, regionIndex) ==
  [index |-> index, kind |-> kind, formatted |-> formatted,
   indentationLevel |-> indentationLevel, mode |-> mode,
   regionIndex |-> regionIndex]

FormatterDiagnostic(index, severity, message) ==
  [index |-> index, severity |-> severity, message |-> message]

\* placeholderMap.has(id)
HasPrintInfo(infos, id) == \E k \in 1..Len(infos) : infos[k].entry.id = id

\* placeholderMap.get(id): the print info set last for the id
PrintInfoById(infos, id) ==
  LET ks == {k \in 1..Len(infos) : infos[k].entry.id = id}
  IN infos[CHOOSE k \in ks : \A j \in ks : j <= k]

\* the HTML text in front of a token: a run of spaces and tabs at its end is
\* dropped when the run starts the text or follows a newline
DropLineIndent(htmlText) ==
  LET startIdx == TrailingBlankFrom(htmlText, Len(htmlText))
  IN IF startIdx <= Len(htmlText)
        /\ (startIdx = 1 \/ htmlText[startIdx - 1] = "\n")
     THEN SubSeq(htmlText, 1, startIdx - 1)
     ELSE htmlText

\* the while loop of composeOutput from the k-th token match on, and the tail
\* after the last match; lastIndex is the position after the previous match
RECURSIVE ComposeFrom(_, _, _, _, _, _, _, _)
ComposeFrom(h, infos, cfg, ms, k, lastIndex, currentRubyIndent, acc) ==
  LET indentUnit == IndentUnit(cfg)
  IN IF k > Len(ms)
     THEN IF lastIndex <= Len(h)
          THEN [acc EXCEPT !.segments =
                  Append(@, FormatSegment(Len(@), "html",
                            adjustHtmlSegment(SubSeq(h, lastIndex, Len(h)),
                                              currentRubyIndent, indentUnit),
                            0, "html-normalized", -1))]
          ELSE acc
     ELSE LET m == ms[k]
              id == ParseDecimal(CapturedDigits(h, m))
              info == PrintInfoById(infos, id)
              Missing(withHtml) ==
                ComposeFrom(h, infos, cfg, ms, k + 1, m.to + 1,
                  currentRubyIndent,
                  [segments |-> withHtml,
                   diagnostics |->
                     Append(acc.diagnostics,
                            FormatterDiagnostic(-1, "error",
                                                "No placeholder info found"))])
              Found(withHtml, rubyResult) ==
                ComposeFrom(h, infos, cfg, ms, k + 1, m.to + 1,
                  rubyResult.nextIndent,
                  [segments |->
                     Append(withHtml,
                            FormatSegment(Len(withHtml), "ruby",
                                          rubyResult.formatted,
                                          rubyResult.indentationLevel,
                                          rubyResult.mode,
                                          info.entry.regionIndex)),
                   diagnostics |-> acc.diagnostics])
              Token(withHtml) ==
                IF ~HasPrintInfo(infos, id) THEN Missing(withHtml)
                ELSE Found(withHtml,
                           formatRubyPlaceholderSegment(info, currentRubyIndent,
                                                        cfg, indentUnit))
          IN Token(IF m.from > lastIndex
                   THEN Append(acc.segments,
                          FormatSegment(Len(acc.segments), "html",
                            adjustHtmlSegment(
                              DropLineIndent(SubSeq(h, lastIndex, m.from - 1)),
                              currentRubyIndent, indentUnit),
                            0, "html-normalized", -1))
                   ELSE acc.segments)

\* composeOutput with the output joined before the final-newline adjustment
composeOutputJoinedEarly(htmlWithPlaceholders, placeholderPrintInfo, cfg) ==
  LET Result(composed, segments) ==
        [output |-> Join([k \in 1..Len(composed.segments) |->
                            composed.segments[k].formatted]),
         segments |-> segments,
         rubyDiagnostics |-> composed.diagnostics]
      Finish(composed) ==
        Result(composed, ensureFinalNewline(composed.segments, cfg))
  IN Finish(ComposeFrom(htmlWithPlaceholders, placeholderPrintInfo, cfg,
                        TokenMatches(htmlWithPlaceholders, 1), 1, 1, 0,
                        [segments |-> <<>>, diagnostics |-> <<>>]))

composeOutput(htmlWithPlaceholders, placeholderPrintInfo, cfg) ==
  LET Result(composed, segments) ==
        [output |-> Join([k \in 1..Len(segments) |-> segments[k].formatted]),
         segments |-> segments,
         rubyDiagnostics |-> composed.diagnostics]
      Finish(composed) ==
        Result(composed, ensureFinalNewline(composed.segments, cfg))
  IN Finish(ComposeFrom(htmlWithPlaceholders, placeholderPrintInfo, cfg,
                        TokenMatches(htmlWithPlaceholders, 1), 1, 1, 0,
                        [segments |-> <<>>, diagnostics |-> <<>>]))

\* formatERB(parsed, givenConfig).  The call of renderHtmlDocument hands over
\* the analysis, the indentation size and style and collapseWhitespace; the
\* renderer also takes the document's html, lineWidth and attributeWrapping,
\* which the model binds to the html of the placeholder document and to the
\* configuration's values.
formatERB(parsedRegions, givenConfig) ==
  LET cfg == mergeConfig(DEFAULT_FORMATTER_CONFIG, givenConfig)
      Result(document, htmlAnalysis, printed, composed) ==
        [output |-> composed.output,
         segments |-> composed.segments,
         diagnostics |->
           [k \in 1..Len(htmlAnalysis.diagnostics) |->
              FormatterDiagnostic(htmlAnalysis.diagnostics[k].entryIndex,
                                  htmlAnalysis.diagnostics[k].severity,
                                  htmlAnalysis.diagnostics[k].message)]
           \o composed.rubyDiagnostics,
         config |-> cfg,
         debug |-> [placeholderHtml |-> printed.html,
                    placeholderCount |-> Len(document.placeholders)]]
      Compose(document, htmlAnalysis, printed) ==
        IF IsThrown(printed) THEN printed
        ELSE Result(document, htmlAnalysis, printed,
                    composeOutput(printed.html, printed.placeholderPrintInfo,
                                  cfg))
      Render(document, htmlAnalysis) ==
        Compose(document, htmlAnalysis,
                renderHtmlDocument(htmlAnalysis, document.html,
                                   cfg.indentation.size,
                                   cfg.indentation.style,
                                   cfg.html.collapseWhitespace,
                                   cfg.html.lineWidth,
                                   cfg.html.attributeWrapping))
      Analyze(document) == Render(document, analyzePlaceholderDocument(document))
  IN Analyze(buildPlaceholderDocument(parsedRegions))

----------------------------------------------------------------------------
(* Specification of the placeholder builder on its own: the region lists   *)
(* are drawn from texts a template can hold, among them text that spells a *)
(* placeholder token and Ruby code with a dollar sign.                     *)

RegionPool ==
  { HtmlRegion(<<"a">>),
    HtmlRegion(<<" ">>),
    HtmlRegion(createPlaceholderToken(0)),
    HtmlRegion(PLACEHOLDER_PREFIX \o <<"1">>),
    RubyRegion("logic", <<"<", "%", "x", "%", ">">>, <<"x">>),
    RubyRegion("output", <<"<", "%", "=", "$", "$", "%", ">">>, <<"$", "$">>),
    RubyRegion("comment", <<"<", "%", "#", "y", "%", ">">>, <<>>),
    UnknownRegion("ERROR", <<"<">>) }

RegionLists == UNION {[1..n -> RegionPool] : n \in 0..MaxRegions}

NoDocument == [html |-> <<>>, placeholders |-> <<>>]

NoPrint == [html |-> <<>>, placeholderPrintInfo |-> <<>>]

NoResult ==
  [output |-> <<>>, segments |-> <<>>, diagnostics |-> <<>>,
   config |-> DEFAULT_FORMATTER_CONFIG,
   debug |-> [placeholderHtml |-> <<>>, placeholderCount |-> 0]]

\* the parts of the state a run does not use
ConfigIdle == heap = <<>> /\ returned = <<>>

IndentIdle ==
  /\ rubyIndentCounter = 0
  /\ visited = <<>>
  /\ indentLevel = 0
  /\ formattedLines = <<>>

CliIdle ==
  /\ argv = <<>>
  /\ options = <<>>
  /\ fileSystem = <<>>
  /\ targetFiles = <<>>
  /\ nextFile = 0
  /\ stdout = <<>>
  /\ exitCode = 0

PipelineIdle ==
  /\ source = <<>>
  /\ configInput = NoOverride
  /\ regions = <<>>
  /\ placeholderDocument = NoDocument
  /\ restored = <<>>
  /\ result = NoResult
  /\ reformatted = NoResult
  /\ htmlPrint = NoPrint

InitPlaceholders ==
  /\ pc = "regions"
  /\ source = <<>>
  /\ configInput = NoOverride
  /\ regions \in RegionLists
  /\ placeholderDocument = NoDocument
  /\ restored = <<>>
  /\ result = NoResult
  /\ reformatted = NoResult
  /\ htmlPrint = NoPrint
  /\ ConfigIdle /\ IndentIdle /\ CliIdle

BuildPlaceholders ==
  /\ pc = "regions"
  /\ placeholderDocument' = buildPlaceholderDocument(regions)
  /\ pc' = "built"
  /\ UNCHANGED <<source, configInput, regions, restored, result, reformatted,
                 htmlPrint>>
  /\ UNCHANGED <<configVars, indentVars, cliVars>>

RestorePlaceholders ==
  /\ pc = "built"
  /\ restored' = restoreFromPlaceholders(placeholderDocument.html,
                                         placeholderDocument.placeholders)
  /\ pc' = "restored"
  /\ UNCHANGED <<source, configInput, regions, placeholderDocument, result,
                 reformatted, htmlPrint>>
  /\ UNCHANGED <<configVars, indentVars, cliVars>>

NextPlaceholders == BuildPlaceholders \/ RestorePlaceholders

SpecPlaceholders == InitPlaceholders /\ [][NextPlaceholders]_vars

----------------------------------------------------------------------------
(* Specification of parseERB: the sources are every run of up to           *)
(* MaxFragments fragments, among them delimiters that open without closing *)
(* and close without opening.                                              *)

FragmentPool ==
  {<<"<", "%">>, <<"%", ">">>, <<"<", "%", "=", "x", "%", ">">>, <<"#">>,
   <<"%">>, <<"<">>, <<"a", " ">>, <<"\n">>}

SourcesOf(pool, n) == {Join(fs) : fs \in UNION {[1..m -> pool] : m \in 0..n}}

ParseSources == SourcesOf(FragmentPool, MaxFragments)

InitParse ==
  /\ pc = "source"
  /\ source \in ParseSources
  /\ configInput = NoOverride
  /\ regions = <<>>
  /\ placeholderDocument = NoDocument
  /\ restored = <<>>
  /\ result = NoResult
  /\ reformatted = NoResult
  /\ htmlPrint = NoPrint
  /\ ConfigIdle /\ IndentIdle /\ CliIdle

ParseERB ==
  /\ pc = "source"
  /\ regions' = parseERB(source)
  /\ pc' = "parsed"
  /\ UNCHANGED <<source, configInput, placeholderDocument, restored, result,
                 reformatted, htmlPrint>>
  /\ UNCHANGED <<configVars, indentVars, cliVars>>

NextParse == ParseERB

SpecParse == InitParse /\ [][NextParse]_vars

----------------------------------------------------------------------------
(* Specification of a format run: a template made of up to MaxPieces       *)
(* pieces is parsed and formatted under one of the configurations.         *)

PiecePool ==
  {<<"<", "%", " ", "i", "f", " ", "c", " ", "%", ">", "\n">>,
   <<"<", "%", " ", "e", "n", "d", " ", "%", ">", "\n">>,
   <<"<", "p", "r", "e", ">", "\n", " ", " ", "a", " ", "\n", "<", "/", "p", "r", "e", ">", "\n">>,
   <<"<", "p", ">", "t", " ", "<", "%", "=", " ", "v", " ", "%", ">", "<", "/", "p", ">">>,
   <<"<", "d", "i", "v", ">">>,
   <<"<", "/", "d", "i", "v", ">">>,
   <<"<", "!", "-", "-", " ", "<", "%", "=", " ", "v", " ", "%", ">", " ", "\n", "-", "-", ">">>}

FormatSources == SourcesOf(PiecePool, MaxPieces)

ConfigPool ==
  {NoOverride,
   [newline |-> "crlf"],
   [newline |-> "preserve"],
   [whitespace |-> [trimTrailingWhitespace |-> FALSE,
                    ensureFinalNewline |-> FALSE]],
   [indentation |-> [size |-> 4], html |-> [collapseWhitespace |-> "preserve"]]}

InitFormat ==
  /\ pc = "source"
  /\ source \in FormatSources
  /\ configInput \in ConfigPool
  /\ regions = <<>>
  /\ placeholderDocument = NoDocument
  /\ restored = <<>>
  /\ result = NoResult
  /\ reformatted = NoResult
  /\ htmlPrint = NoPrint
  /\ ConfigIdle /\ IndentIdle /\ CliIdle

FormatERB ==
  /\ pc = "parsed"
  /\ result' = formatERB(regions, configInput)
  /\ pc' = "formatted"
  /\ UNCHANGED <<source, configInput, regions, placeholderDocument, restored,
                 reformatted, htmlPrint>>
  /\ UNCHANGED <<configVars, indentVars, cliVars>>

NextFormat == ParseERB \/ FormatERB

SpecFormat == InitFormat /\ [][NextFormat]_vars

\* the output is parsed and formatted again with the same configuration
Reformat ==
  /\ pc = "formatted"
  /\ reformatted' = formatERB(parseERB(result.output), configInput)
  /\ pc' = "reformatted"
  /\ UNCHANGED <<source, configInput, regions, placeholderDocument, restored,
                 result, htmlPrint>>
  /\ UNCHANGED <<configVars, indentVars, cliVars>>

NextReformat == ParseERB \/ FormatERB \/ Reformat

SpecReformat == InitFormat /\ [][NextReformat]_vars

----------------------------------------------------------------------------
(* Specification of the configuration merge: formatERB is called several   *)
(* times in one process, with and without an override.                     *)

OverridePool ==
  {NoOverride,
   [indentation |-> [size |-> 4]],
   [indentation |-> [size |-> 4],
    whitespace |-> [trimTrailingWhitespace |-> FALSE]],
   [newline |-> "crlf"],
   [html |-> [lineWidth |-> NullLineWidth, attributeWrapping |-> "auto"]],
   [newline |-> "preserve", ruby |-> [alignBlockEnds |-> FALSE],
    indentation |-> [style |-> "tab", size |-> 1, continuation |-> 4]]}

InitConfig ==
  /\ pc = "config"
  /\ heap = AllocateConfig(<<>>, DEFAULT_FORMATTER_CONFIG).heap
  /\ returned = <<>>
  /\ PipelineIdle /\ IndentIdle /\ CliIdle

\* const config = mergeConfig(DEFAULT_FORMATTER_CONFIG, givenConfig) of one
\* call of formatERB; the caller's override is an object of its own
MergeConfig(hasOverride, override) ==
  LET Call(given) ==
        mergeConfigHeap(given.heap, DefaultsCell, hasOverride, given.cell)
      Return(merged) ==
        /\ heap' = merged.heap
        /\ returned' = Append(returned, [hasOverride |-> hasOverride,
                                         override |-> override,
                                         config |-> merged.cell])
  IN /\ pc = "config"
     /\ Len(returned) < MaxCalls
     /\ Return(Call(AllocateConfig(heap, override)))
     /\ UNCHANGED <<pc, pipelineVars, indentVars, cliVars>>

NextConfig ==
  \E hasOverride \in BOOLEAN, override \in OverridePool :
    MergeConfig(hasOverride, override)

SpecConfig == InitConfig /\ [][NextConfig]_vars

----------------------------------------------------------------------------
(* Specification of the indent counter of composeOutput: the loop visits   *)
(* one placeholder after the other, each with the print info the renderer  *)
(* recorded for it.                                                        *)

\* the print info of a directive printed at a container depth
PrintInfoOf(text, level, inline, inAttribute) ==
  [entry |-> [id |-> 0, regionIndex |-> 0, region |-> parseERB(text)[1],
              placeholder |-> createPlaceholderToken(0)],
   indentationLevel |-> level,
   inline |-> inline,
   inAttribute |-> inAttribute,
   sensitive |-> FALSE]

\* logic directives on lines of their own, outside every element
BlockDirectives ==
  {<<"<", "%", " ", "i", "f", " ", "a", " ", "%", ">">>, <<"<", "%", " ", "e", "l", "s", "i", "f", " ", "b", " ", "%", ">">>, <<"<", "%", " ", "e", "l", "s", "e", " ", "%", ">">>, <<"<", "%", " ", "w", "h", "e", "n", " ", "1", " ", "%", ">">>,
   <<"<", "%", " ", "c", ".", "e", "a", "c", "h", " ", "d", "o", " ", "|", "i", "|", " ", "%", ">">>, <<"<", "%", " ", "e", "n", "d", " ", "%", ">">>}

NestingInfos == {PrintInfoOf(text, 0, FALSE, FALSE) : text \in BlockDirectives}

\* directives of every flavor, among them one that is not closed
DirectivePool ==
  {<<"<", "%", " ", "i", "f", " ", "a", " ", "%", ">">>, <<"<", "%", " ", "e", "l", "s", "e", " ", "%", ">">>, <<"<", "%", " ", "e", "n", "d", " ", "%", ">">>, <<"<", "%", "=", " ", "v", " ", "%", ">">>, <<"<", "%", "#", " ", "c", " ", "%", ">">>,
   <<"<", "%", " ", "i", "f", " ", "a", " ", "\n">>}

InfoPool ==
  {PrintInfoOf(text, level, FALSE, FALSE) :
     text \in DirectivePool, level \in 0..1}
  \cup {PrintInfoOf(text, level, TRUE, FALSE) :
          text \in DirectivePool, level \in 0..1}
  \cup {PrintInfoOf(text, 0, TRUE, TRUE) : text \in DirectivePool}

InitIndent ==
  /\ pc = "composing"
  /\ IndentIdle
  /\ PipelineIdle /\ ConfigIdle /\ CliIdle

\* one round of the loop of composeOutput for a placeholder that has a print
\* info: the segment is pushed and currentRubyIndent takes nextIndent
Visit(info) ==
  LET Push(rubyResult) ==
        /\ rubyIndentCounter' = rubyResult.nextIndent
        /\ visited' =
             Append(visited,
                    [info |-> info,
                     currentRubyIndent |-> rubyIndentCounter,
                     nextIndent |-> rubyResult.nextIndent,
                     segment |-> FormatSegment(Len(visited), "ruby",
                                               rubyResult.formatted,
                                               rubyResult.indentationLevel,
                                               rubyResult.mode,
                                               info.entry.regionIndex)])
  IN /\ pc = "composing"
     /\ Push(formatRubyPlaceholderSegment(
               info, rubyIndentCounter, DEFAULT_FORMATTER_CONFIG,
               IndentUnit(DEFAULT_FORMATTER_CONFIG)))
     /\ UNCHANGED <<pc, indentLevel, formattedLines, pipelineVars, configVars,
                     cliVars>>

NextNesting ==
  /\ Len(visited) < MaxDirectives
  /\ \E info \in NestingInfos : Visit(info)

SpecNesting == InitIndent /\ [][NextNesting]_vars

NextIndent ==
  /\ Len(visited) < MaxVisits
  /\ \E info \in InfoPool : Visit(info)

SpecIndent == InitIndent /\ [][NextIndent]_vars

----------------------------------------------------------------------------
(* Specification of the loop of composeOutput with its HTML text: between  *)
(* two placeholders the loop copies the HTML text the renderer printed     *)
(* there, and after the last placeholder it copies the tail.               *)

\* HTML texts the renderer prints between placeholders: line ends, open and
\* close tags with their indentation, an empty line, the verbatim content of
\* a pre element with a line of one space, text in front of an inline
\* placeholder and the single space between two inline placeholders
HtmlTextPool ==
  {<<"\n">>, <<"\n", "<", "p", ">", "\n", " ", " ">>, <<"\n", "<", "/", "p", ">", "\n">>, <<"\n", "\n", "<", "h", "r", ">", "\n">>, <<"\n", "<", "p", "r", "e", ">", "\n", " ", "\n", "q", "\n", "<", "/", "p", "r", "e", ">", "\n">>,
   <<"<", "b", ">", "x", " ">>, <<" ">>, <<"\n", "\t">>}

\* the placeholders of the loop: a block opener, its end, an output directive
\* on a line of its own and an inline one
ComposeInfos ==
  {PrintInfoOf(<<"<", "%", " ", "i", "f", " ", "a", " ", "%", ">">>, 0, FALSE, FALSE),
   PrintInfoOf(<<"<", "%", " ", "e", "n", "d", " ", "%", ">">>, 0, FALSE, FALSE),
   PrintInfoOf(<<"<", "%", "=", " ", "v", " ", "%", ">">>, 1, FALSE, FALSE),
   PrintInfoOf(<<"<", "%", "=", " ", "v", " ", "%", ">">>, 1, TRUE, FALSE)}

\* the HTML text before a placeholder or after the last one has not been
\* copied yet: the loop copies all of it in one segment
HtmlPending ==
  IF visited = <<>> THEN TRUE
  ELSE visited[Len(visited)].segment.kind = "ruby"

HtmlStep(htmlText, beforeToken, formatted) ==
  [htmlText |-> htmlText,
   beforeToken |-> beforeToken,
   currentRubyIndent |-> rubyIndentCounter,
   nextIndent |-> rubyIndentCounter,
   segment |-> FormatSegment(Len(visited), "html", formatted, 0,
                             "html-normalized", -1)]

\* the HTML text in front of a placeholder (start > lastIndex): the indent of
\* the placeholder's line is dropped, the lines are indented by the counter
\* and the segment is pushed
CopyHtml(htmlText) ==
  /\ pc = "composing"
  /\ HtmlPending
  /\ htmlText # <<>>
  /\ visited' =
       Append(visited,
              HtmlStep(htmlText, TRUE,
                       adjustHtmlSegment(DropLineIndent(htmlText),
                                         rubyIndentCounter,
                                         IndentUnit(DEFAULT_FORMATTER_CONFIG))))
  /\ UNCHANGED <<pc, rubyIndentCounter, indentLevel, formattedLines>>
  /\ UNCHANGED <<pipelineVars, configVars, cliVars>>

\* the tail after the last placeholder (lastIndex < length): the loop is over
CopyTail(tail) ==
  /\ pc = "composing"
  /\ HtmlPending
  /\ tail # <<>>
  /\ visited' =
       Append(visited,
              HtmlStep(tail, FALSE,
                       adjustHtmlSegment(tail, rubyIndentCounter,
                                         IndentUnit(DEFAULT_FORMATTER_CONFIG))))
  /\ pc' = "composed"
  /\ UNCHANGED <<rubyIndentCounter, indentLevel, formattedLines>>
  /\ UNCHANGED <<pipelineVars, configVars, cliVars>>

NextCompose ==
  /\ Len(visited) < MaxSteps
  /\ \/ \E info \in ComposeInfos : Visit(info)
     \/ \E htmlText \in HtmlTextPool : CopyHtml(htmlText)
     \/ \E tail \in HtmlTextPool : CopyTail(tail)

SpecCompose == InitIndent /\ [][NextCompose]_vars

----------------------------------------------------------------------------
(* Specification of the keyword fallback of analyzeRubyIndentation: the    *)
(* code of a logic directive, trimmed, for which the parse tree gave no     *)
(* effect, is classified by classifyByKeyword.                             *)

\* first words of a code: the keywords of Ruby's blocks and clauses, the
\* names of node types and a plain identifier
CodeWords ==
  BlockKeywords \cup ClauseKeywords \cup {<<"e", "n", "d">>, <<"m", "e", "t", "h", "o", "d">>, <<"d", "o">>, <<"x">>}

\* codes built on a word: the word alone, with an argument, as the start of a
\* longer identifier, after a receiver, and in front of a do block with and
\* without parameters
CodesOf(w) ==
  {w, w \o <<" ", "a">>, w \o <<"s">>, <<"a", ".">> \o w, w \o <<" ", "a", " ", "d", "o">>, w \o <<" ", "a", " ", "d", "o", " ", "|", "i", "|">>}

CodePool == UNION {CodesOf(w) : w \in CodeWords}

InitKeyword ==
  /\ pc = "code"
  /\ source \in CodePool
  /\ configInput = NoOverride
  /\ regions = <<>>
  /\ placeholderDocument = NoDocument
  /\ restored = <<>>
  /\ result = NoResult
  /\ reformatted = NoResult
  /\ htmlPrint = NoPrint
  /\ ConfigIdle /\ IndentIdle /\ CliIdle

\* analyzeRubyIndentation when effectFromAst is null: return classifyByKeyword(code)
ClassifyCode ==
  /\ pc = "code"
  /\ pc' = "classified"
  /\ visited' = <<[code |-> source, effects |-> classifyByKeyword(source)]>>
  /\ UNCHANGED <<rubyIndentCounter, indentLevel, formattedLines>>
  /\ UNCHANGED <<pipelineVars, configVars, cliVars>>

NextKeyword == ClassifyCode

SpecKeyword == InitKeyword /\ [][NextKeyword]_vars

----------------------------------------------------------------------------
(* Specification of the renderer: a template is parsed, its placeholder    *)
(* document is built and analyzed, and renderHtmlDocument prints it.  The   *)
(* templates hold one element with placeholders in its content, at depth 0 *)
(* or inside a section, and the templates without any node.                *)

RenderTagPool == WHITESPACE_SENSITIVE_ELEMENTS \cup {<<"d", "i", "v">>}

\* content of the element: one output directive, a block directive on a line
\* of its own, two directives in text, a directive inside a child element
InnerPool ==
  {<<"<", "%", "=", " ", "v", " ", "%", ">">>, <<"\n", "<", "%", " ", "i", "f", " ", "a", " ", "%", ">", "\n">>, <<"x", " ", "<", "%", "=", " ", "v", " ", "%", ">", " ", "<", "%", "=", " ", "w", " ", "%", ">">>, <<"<", "b", ">", "<", "%", "=", " ", "v", " ", "%", ">", "<", "/", "b", ">">>}

RenderCases == [tag : RenderTagPool, nested : BOOLEAN, inner : InnerPool]

RenderSourceOf(case) ==
  (IF case.nested THEN <<"<", "s", "e", "c", "t", "i", "o", "n", ">">> ELSE <<>>)
  \o <<"<">> \o case.tag \o <<">">> \o case.inner
  \o <<"<", "/">> \o case.tag \o <<">">>
  \o (IF case.nested THEN <<"<", "/", "s", "e", "c", "t", "i", "o", "n", ">">> ELSE <<>>)

\* templates whose placeholder document has no node, and plain ones
PlainSources == {<<>>, <<" ", "\n">>, <<"x">>, <<"<", "p", ">", "x", "<", "/", "p", ">", "\n">>}

RenderSources == {RenderSourceOf(case) : case \in RenderCases} \cup PlainSources

InitRender ==
  /\ pc = "source"
  /\ source \in RenderSources
  /\ configInput = NoOverride
  /\ regions = <<>>
  /\ placeholderDocument = NoDocument
  /\ restored = <<>>
  /\ result = NoResult
  /\ reformatted = NoResult
  /\ htmlPrint = NoPrint
  /\ ConfigIdle /\ IndentIdle /\ CliIdle

\* formatERB up to the call of renderHtmlDocument
RenderHtmlDocument ==
  LET cfg == mergeConfig(DEFAULT_FORMATTER_CONFIG, configInput)
      Render(document) ==
        /\ placeholderDocument' = document
        /\ htmlPrint' =
             renderHtmlDocument(analyzePlaceholderDocument(document),
                                document.html,
                                cfg.indentation.size,
                                cfg.indentation.style,
                                cfg.html.collapseWhitespace,
                                cfg.html.lineWidth,
                                cfg.html.attributeWrapping)
  IN /\ pc = "parsed"
     /\ Render(buildPlaceholderDocument(regions))
     /\ pc' = "rendered"
     /\ UNCHANGED <<source, configInput, regions, restored, result, reformatted>>
     /\ UNCHANGED <<configVars, indentVars, cliVars>>

NextRender == ParseERB \/ RenderHtmlDocument

SpecRender == InitRender /\ [][NextRender]_vars

----------------------------------------------------------------------------
(* Specification of a format run with an indentation size outside its      *)
(* domain: the override gives a size of zero or less, with both styles.    *)

SizePool == {-2, -1, 0}

SizeConfigs ==
  {[indentation |-> [size |-> size, style |-> style]] :
     size \in SizePool, style \in {"space", "tab"}}

SizeSources == SourcesOf(PiecePool, 1)

InitSize ==
  /\ pc = "source"
  /\ source \in SizeSources
  /\ configInput \in SizeConfigs
  /\ regions = <<>>
  /\ placeholderDocument = NoDocument
  /\ restored = <<>>
  /\ result = NoResult
  /\ reformatted = NoResult
  /\ htmlPrint = NoPrint
  /\ ConfigIdle /\ IndentIdle /\ CliIdle

SpecSize == InitSize /\ [][NextFormat]_vars

----------------------------------------------------------------------------
(* Specification of a format run on templates whose elements are not all   *)
(* closed: the renderer prints the content of a whitespace-sensitive       *)
(* element up to its end tag, and a pre element that is never closed, or   *)
(* that the end tag of its parent closes, has none.                        *)

UnclosedPiecePool ==
  {<<"<", "p", "r", "e", ">">>, <<"<", "/", "p", "r", "e", ">">>, <<"<", "%", "=", " ", "v", " ", "%", ">">>, <<"<", "d", "i", "v", ">", "<", "p", "r", "e", ">", "<", "%", "=", " ", "v", " ", "%", ">">>, <<"<", "/", "d", "i", "v", ">", "\n">>, <<"<", "c", "o", "d", "e", ">">>,
   <<"<", "!", "-", "-", " ", "<", "%", "=", " ", "c", " ", "%", ">", " ", "-", "-", ">">>, <<"x">>}

UnclosedSources == SourcesOf(UnclosedPiecePool, MaxPieces)

InitUnclosed ==
  /\ pc = "source"
  /\ source \in UnclosedSources
  /\ configInput = NoOverride
  /\ regions = <<>>
  /\ placeholderDocument = NoDocument
  /\ restored = <<>>
  /\ result = NoResult
  /\ reformatted = NoResult
  /\ htmlPrint = NoPrint
  /\ ConfigIdle /\ IndentIdle /\ CliIdle

SpecUnclosed == InitUnclosed /\ [][NextFormat]_vars

----------------------------------------------------------------------------
(* The Ruby code formatter (rubyFormatter.ts, formatRubyCode).  The lines   *)
(* of the model hold no backslash and no interpolation, so the escaped     *)
(* flag of the scanners stays false and extractInterpolationExpression is  *)
(* not called.                                                             *)

BLOCK_START_KEYWORDS ==
  {<<"i", "f">>, <<"u", "n", "l", "e", "s", "s">>, <<"w", "h", "i", "l", "e">>, <<"u", "n", "t", "i", "l">>, <<"f", "o", "r">>, <<"c", "a", "s", "e">>, <<"c", "l", "a", "s", "s">>, <<"m", "o", "d", "u", "l", "e">>, <<"d", "e", "f">>,
   <<"b", "e", "g", "i", "n">>, <<"l", "o", "o", "p">>}

BLOCK_MIDDLE_KEYWORDS == {<<"e", "l", "s", "i", "f">>, <<"e", "l", "s", "e">>, <<"w", "h", "e", "n">>, <<"r", "e", "s", "c", "u", "e">>, <<"e", "n", "s", "u", "r", "e">>}

BLOCK_END_KEYWORDS == {<<"e", "n", "d">>}

\* [a-z_]
KeywordChars ==
  {"a", "b", "c", "d", "e", "f", "g", "h", "i", "j", "k", "l", "m", "n", "o",
   "p", "q", "r", "s", "t", "u", "v", "w", "x", "y", "z", "_"}

\* the quote state after the character c
QuoteAfter(quote, c) ==
  IF quote = "none"
  THEN (IF c = "'" THEN "single" ELSE IF c = "\"" THEN "double" ELSE "none")
  ELSE IF (quote = "single" /\ c = "'") \/ (quote = "double" /\ c = "\"")
  THEN "none"
  ELSE quote

\* the position of the first # outside quotes at or after i, 0 when none
RECURSIVE CommentFrom(_, _, _)
CommentFrom(line, i, quote) ==
  IF i > Len(line) THEN 0
  ELSE IF quote = "none" /\ line[i] = "#" THEN i
  ELSE CommentFrom(line, i + 1, QuoteAfter(quote, line[i]))

\* splitComment: comment is <<>> for null
splitComment(line) ==
  LET i == CommentFrom(line, 1, "none")
  IN IF i = 0 THEN [body |-> TrimEnd(line), comment |-> <<>>]
     ELSE [body |-> TrimEnd(SubSeq(line, 1, i - 1)),
           comment |-> Trim(SubSeq(line, i, Len(line)))]

RECURSIVE CollapseFrom(_, _, _, _)
CollapseFrom(text, i, quote, pendingSpace) ==
  LET space == IF pendingSpace THEN <<" ">> ELSE <<>>
  IN IF i > Len(text) THEN space
     ELSE IF quote # "none"
     THEN <<text[i]>> \o CollapseFrom(text, i + 1, QuoteAfter(quote, text[i]), FALSE)
     ELSE IF text[i] \in {"'", "\""}
     THEN space \o <<text[i]>>
          \o CollapseFrom(text, i + 1, QuoteAfter(quote, text[i]), FALSE)
     ELSE IF text[i] \in {" ", "\t"}
     THEN CollapseFrom(text, i + 1, quote, TRUE)
     ELSE space \o <<text[i]>> \o CollapseFrom(text, i + 1, quote, FALSE)

collapseWhitespaceOutsideStrings(text) == CollapseFrom(text, 1, "none", FALSE)

keywordsNeedingSpace ==
  <<<<"i", "f">>, <<"e", "l", "s", "i", "f">>, <<"e", "l", "s", "e">>, <<"u", "n", "l", "e", "s", "s">>, <<"w", "h", "i", "l", "e">>, <<"u", "n", "t", "i", "l">>, <<"f", "o", "r">>, <<"c", "a", "s", "e">>, <<"w", "h", "e", "n">>,
    <<"r", "e", "s", "c", "u", "e">>, <<"e", "n", "s", "u", "r", "e">>, <<"d", "o">>>>

\* s.replace(/\bkeyword\s+/g, "keyword ") from position i on
RECURSIVE KeywordSpaced(_, _, _)
KeywordSpaced(s, keyword, i) ==
  LET after == i + Len(keyword)
  IN IF i > Len(s) THEN <<>>
     ELSE IF /\ StartsWithAt(s, keyword, i)
             /\ (i = 1 \/ s[i - 1] \notin WordChars)
             /\ after <= Len(s)
             /\ s[after] \in WhiteSpace
     THEN keyword \o <<" ">>
          \o KeywordSpaced(s, keyword, SkipChars(s, after, WhiteSpace))
     ELSE <<s[i]>> \o KeywordSpaced(s, keyword, i + 1)

RECURSIVE KeywordsSpaced(_, _)
KeywordsSpaced(s, k) ==
  IF k > Len(keywordsNeedingSpace) THEN s
  ELSE KeywordsSpaced(KeywordSpaced(s, keywordsNeedingSpace[k], 1), k + 1)

\* s.replace(/,\s*/g, ", ") from position i on
RECURSIVE CommaSpaced(_, _)
CommaSpaced(s, i) ==
  IF i > Len(s) THEN <<>>
  ELSE IF s[i] = ","
  THEN <<",", " ">> \o CommaSpaced(s, SkipChars(s, i + 1, WhiteSpace))
  ELSE <<s[i]>> \o CommaSpaced(s, i + 1)

normalizeRubyBody(body) ==
  Trim(CommaSpaced(KeywordsSpaced(collapseWhitespaceOutsideStrings(body), 1), 1))

\* line.match(/^([a-z_]+)/): <<>> for null
leadingKeyword(line) == SubSeq(line, 1, SkipChars(line, 1, KeywordChars) - 1)

\* /\bword\b/.test(line)
ContainsWord(line, word) ==
  \E i \in 1..Len(line) :
    /\ StartsWithAt(line, word, i)
    /\ (i = 1 \/ line[i - 1] \notin WordChars)
    /\ (i + Len(word) > Len(line) \/ line[i + Len(word)] \notin WordChars)

shouldDedentBefore(line) ==
  leadingKeyword(line) \in BLOCK_END_KEYWORDS \cup BLOCK_MIDDLE_KEYWORDS

shouldIndentAfter(line) ==
  \/ leadingKeyword(line) \in BLOCK_START_KEYWORDS \cup BLOCK_MIDDLE_KEYWORDS
  \/ (ContainsWord(line, <<"d", "o">>) /\ ~ContainsWord(line, <<"e", "n", "d">>))

appendComment(body, comment) ==
  IF comment = <<>> THEN body
  ELSE IF TrimEnd(body) # <<>> THEN TrimEnd(body) \o <<" ", " ">> \o comment
  ELSE comment

\* findClosingParen from position i on, 0 for -1
RECURSIVE ClosingParenFrom(_, _, _, _)
ClosingParenFrom(text, i, depth, quote) ==
  IF i > Len(text) THEN 0
  ELSE IF quote # "none" \/ text[i] \in {"'", "\""}
  THEN ClosingParenFrom(text, i + 1, depth, QuoteAfter(quote, text[i]))
  ELSE IF text[i] = "(" THEN ClosingParenFrom(text, i + 1, depth + 1, quote)
  ELSE IF text[i] = ")"
  THEN (IF depth - 1 = 0 THEN i
        ELSE ClosingParenFrom(text, i + 1, depth - 1, quote))
  ELSE ClosingParenFrom(text, i + 1, depth, quote)

findClosingParen(text, openIndex) == ClosingParenFrom(text, openIndex, 0, "none")

\* the position of the next comma of splitArguments that is outside quotes,
\* parentheses, brackets and braces, Len(content) + 1 when there is none;
\* depths holds depthParen, depthBracket and depthBrace
RECURSIVE ArgumentEnd(_, _, _, _)
ArgumentEnd(content, i, depths, quote) ==
  LET c == content[i]
      Deeper(k) == [depths EXCEPT ![k] = @ + 1]
      Shallower(k) == [depths EXCEPT ![k] = Max(0, @ - 1)]
  IN IF i > Len(content) THEN i
     ELSE IF quote # "none" \/ c \in {"'", "\""}
     THEN ArgumentEnd(content, i + 1, depths, QuoteAfter(quote, c))
     ELSE IF c = "(" THEN ArgumentEnd(content, i + 1, Deeper(1), quote)
     ELSE IF c = ")" THEN ArgumentEnd(content, i + 1, Shallower(1), quote)
     ELSE IF c = "[" THEN ArgumentEnd(content, i + 1, Deeper(2), quote)
     ELSE IF c = "]" THEN ArgumentEnd(content, i + 1, Shallower(2), quote)
     ELSE IF c = "{" THEN ArgumentEnd(content, i + 1, Deeper(3), quote)
     ELSE IF c = "}" THEN ArgumentEnd(content, i + 1, Shallower(3), quote)
     ELSE IF c = "," /\ depths = <<0, 0, 0>> THEN i
     ELSE ArgumentEnd(content, i + 1, depths, quote)

RECURSIVE ArgumentsFrom(_, _)
ArgumentsFrom(content, start) ==
  LET end == ArgumentEnd(content, start, <<0, 0, 0>>, "none")
      current == Trim(SubSeq(content, start, end - 1))
  IN IF end > Len(content)
     THEN (IF current # <<>> THEN <<current>> ELSE <<>>)
     ELSE <<current>> \o ArgumentsFrom(content, end + 1)

splitArguments(content) == ArgumentsFrom(content, 1)

\* splitArgumentsForWrap: arguments is <<>> for null
splitArgumentsForWrap(body) ==
  LET openIndex == IndexOf(body, <<"(">>, 1)
      closeIndex == IF openIndex = 0 THEN 0 ELSE findClosingParen(body, openIndex)
      args == splitArguments(SubSeq(body, openIndex + 1, closeIndex - 1))
  IN IF openIndex = 0 \/ closeIndex = 0 \/ Len(args) <= 1
     THEN [prefix |-> <<>>, arguments |-> <<>>, suffix |-> <<>>]
     ELSE [prefix |-> SubSeq(body, 1, openIndex),
           arguments |-> args,
           suffix |-> SubSeq(body, closeIndex, Len(body))]

WrappedLine(text, extraIndent) == [text |-> text, extraIndent |-> extraIndent]

\* maxWidth is NullLineWidth when it is not finite
wrapRubyBody(body, comment, continuationWidth, maxWidth) ==
  LET trimmedBody == Trim(body)
      split == splitArgumentsForWrap(trimmedBody)
      count == Len(split.arguments)
      Argument(k) ==
        IF k = count
        THEN appendComment(Trim(split.arguments[k]) \o split.suffix, comment)
        ELSE Trim(split.arguments[k]) \o <<",">>
  IN IF maxWidth = NullLineWidth \/ Len(trimmedBody) <= maxWidth \/ count <= 1
     THEN <<WrappedLine(appendComment(trimmedBody, comment), 0)>>
     ELSE <<WrappedLine(TrimEnd(split.prefix), 0)>>
          \o [k \in 1..count |->
                WrappedLine(Argument(k), Max(0, continuationWidth))]

widthToIndent(width, style, indentSize) ==
  IF width <= 0 THEN <<>>
  ELSE IF style = "tab"
  THEN Repeat(<<"\t">>, width \div indentSize)
       \o Repeat(<<" ">>, width % indentSize)
  ELSE Repeat(<<" ">>, width)

\* the callback of rawLines.forEach in formatRubyCode: the lines it pushes to
\* output and the indentLevel it leaves
FormatRawLine(rawLine, level, cfg) ==
  LET indentSize == Max(1, cfg.indentation.size)
      indentStyle == cfg.indentation.style
      continuationWidth == Max(0, cfg.indentation.continuation)
      configuredWidth == cfg.html.lineWidth
      trimmed == Trim(rawLine)
      split == splitComment(trimmed)
      bodyTrimmed == Trim(split.body)
      dedented == IF shouldDedentBefore(bodyTrimmed) THEN Max(0, level - 1)
                  ELSE level
      Pushed(wrappedLines) ==
        [k \in 1..Len(wrappedLines) |->
           widthToIndent(dedented * indentSize + wrappedLines[k].extraIndent,
                         indentStyle, indentSize)
           \o wrappedLines[k].text]
  IN IF Len(trimmed) = 0 THEN [pushed |-> <<<<>>>>, indentLevel |-> level]
     ELSE IF Len(bodyTrimmed) = 0 /\ split.comment # <<>>
     THEN [pushed |-> <<widthToIndent(level * indentSize, indentStyle, indentSize)
                        \o split.comment>>,
           indentLevel |-> level]
     ELSE [pushed |-> Pushed(wrapRubyBody(normalizeRubyBody(bodyTrimmed),
                                          split.comment, continuationWidth,
                                          configuredWidth)),
           indentLevel |-> IF shouldIndentAfter(bodyTrimmed) THEN dedented + 1
                           ELSE dedented]

(* Specification of formatRubyCode: the code is a run of up to MaxLines    *)
(* lines, formatted one after the other under one configuration.           *)

\* lines of Ruby code: block openers, middles and ends, a do block, calls,
\* a call with arguments, comments, a blank line, identifiers that begin
\* with the letters of a keyword (in camel case and in snake case)
RawLinePool ==
  {<<"i", "f", " ", "u", "s", "e", "r">>, <<" ", " ", "e", "l", "s", "e">>, <<"e", "n", "d">>, <<"i", "t", "e", "m", "s", ".", "e", "a", "c", "h", " ", "d", "o", " ", "|", "i", "|">>, <<"p", "u", "t", "s", " ", "\"", "r", "o", "o", "t", "\"">>,
   <<"#", " ", "n", "o", "t", "e">>, <<"x", " ", " ", "=", " ", " ", "1", " ", "#", " ", "n", "o", "t", "e">>, <<>>, <<"l", "i", "n", "k", "_", "t", "o", "(", "a", ",", " ", " ", "b", ":", " ", "[", "1", ",", "2", "]", ")">>,
   <<"e", "n", "d", "T", "i", "m", "e", " ", "=", " ", "5">>, <<"e", "n", "d", "p", "o", "i", "n", "t", " ", "=", " ", "5">>, <<"w", "h", "e", "n", " ", "1">>}

RubyConfigs ==
  {NoOverride,
   [indentation |-> [size |-> 4], html |-> [lineWidth |-> 12]],
   [indentation |-> [style |-> "tab"], html |-> [lineWidth |-> NullLineWidth]]}

InitRuby ==
  /\ pc = "ruby"
  /\ configInput \in RubyConfigs
  /\ source = <<>>
  /\ regions = <<>>
  /\ placeholderDocument = NoDocument
  /\ restored = <<>>
  /\ result = NoResult
  /\ reformatted = NoResult
  /\ htmlPrint = NoPrint
  /\ ConfigIdle /\ IndentIdle /\ CliIdle

FormatLine(rawLine) ==
  LET Push(formatted) ==
        /\ formattedLines' =
             Append(formattedLines,
                    [rawLine |-> rawLine,
                     indentLevel |-> indentLevel,
                     pushed |-> formatted.pushed])
        /\ indentLevel' = formatted.indentLevel
  IN /\ pc = "ruby"
     /\ Push(FormatRawLine(rawLine, indentLevel,
                           mergeConfig(DEFAULT_FORMATTER_CONFIG, configInput)))
     /\ UNCHANGED <<pc, rubyIndentCounter, visited>>
     /\ UNCHANGED <<pipelineVars, configVars, cliVars>>

NextRuby ==
  /\ Len(formattedLines) < MaxLines
  /\ \E rawLine \in RawLinePool : FormatLine(rawLine)

SpecRuby == InitRuby /\ [][NextRuby]_vars

----------------------------------------------------------------------------
(* Specification of a format run over inline content: output directives    *)
(* followed by a space or a tab, text, a paragraph's tags and a line end   *)
(* with the indent of the next line.                                       *)

InlinePiecePool ==
  {<<"<", "%", "=", " ", "a", " ", "%", ">", " ">>, <<"<", "%", "=", " ", "b", " ", "%", ">">>, <<"<", "%", "=", " ", "a", " ", "%", ">", "\t">>, <<"<", "p", ">">>, <<"<", "/", "p", ">", "\n">>, <<"x", " ">>, <<"x">>, <<"\n", " ", " ">>}

InlineSources == SourcesOf(InlinePiecePool, MaxPieces)

InitInline ==
  /\ pc = "source"
  /\ source \in InlineSources
  /\ configInput = NoOverride
  /\ regions = <<>>
  /\ placeholderDocument = NoDocument
  /\ restored = <<>>
  /\ result = NoResult
  /\ reformatted = NoResult
  /\ htmlPrint = NoPrint
  /\ ConfigIdle /\ IndentIdle /\ CliIdle

SpecInline == InitInline /\ [][NextFormat]_vars

----------------------------------------------------------------------------
(* Specification of the attribute layout: one element with attributes, at  *)
(* depth 0 or inside a section, is parsed and formatted under the three    *)
(* wrapping modes, with and without a line width.                          *)

AttributePool == <<<<"a", "=", "\"", "1", "\"">>, <<"b">>, <<"c", "=", "\"", "<", "%", "=", " ", "v", " ", "%", ">", "\"">>, <<"d">>>>

TagPool == {<<"d", "i", "v">>, <<"b">>, <<"s", "c", "r", "i", "p", "t">>}

GapPool == {<<" ">>, <<"\n">>}

LineWidthPool == {NullLineWidth, 11, 13}

\* an element: its tag, whether it is inside a section, the number of its
\* attributes, the text before the first attribute and between attributes
AttributeCases ==
  [tag : TagPool, nested : BOOLEAN,
   count : 1..(IF MaxAttributes < Len(AttributePool) THEN MaxAttributes
               ELSE Len(AttributePool)),
   leading : GapPool, between : GapPool]

AttributesOf(case) == [k \in 1..case.count |-> AttributePool[k]]

SourceOf(case) ==
  (IF case.nested THEN <<"<", "s", "e", "c", "t", "i", "o", "n", ">">> ELSE <<>>)
  \o <<"<">> \o case.tag \o case.leading
  \o JoinWith(AttributesOf(case), case.between)
  \o <<">", "x", "<", "/">> \o case.tag \o <<">">>
  \o (IF case.nested THEN <<"<", "/", "s", "e", "c", "t", "i", "o", "n", ">">> ELSE <<>>)

AttributeSources == {SourceOf(case) : case \in AttributeCases}

AttributeConfigs ==
  {[indentation |-> [size |-> size],
    html |-> [attributeWrapping |-> mode, lineWidth |-> width]] :
     size \in {2, 4},
     mode \in {"preserve", "auto", "force-multi-line"},
     width \in LineWidthPool}

InitAttributes ==
  /\ pc = "source"
  /\ source \in AttributeSources
  /\ configInput \in AttributeConfigs
  /\ regions = <<>>
  /\ placeholderDocument = NoDocument
  /\ restored = <<>>
  /\ result = NoResult
  /\ reformatted = NoResult
  /\ htmlPrint = NoPrint
  /\ ConfigIdle /\ IndentIdle /\ CliIdle

SpecAttributes == InitAttributes /\ [][NextFormat]_vars

----------------------------------------------------------------------------
(* The command line: src/cli.ts.  Paths are plain relative file names, so   *)
(* path.resolve and formatDisplayPath leave them as they are; glob patterns *)
(* and directories are not among the targets.  The file system maps a path  *)
(* to a config file (with the object JSON.parse gives for it) or to a       *)
(* template (its content, whether it can be read, and whether formatERB     *)
(* throws on it).                                                           *)

\* a property name or string value of a configuration, as the model names it
Atom(text) ==
  CASE text = <<"i", "n", "d", "e", "n", "t", "a", "t", "i", "o", "n">> -> "indentation"
    [] text = <<"s", "i", "z", "e">> -> "size"
    [] text = <<"s", "t", "y", "l", "e">> -> "style"
    [] text = <<"h", "t", "m", "l">> -> "html"
    [] text = <<"l", "i", "n", "e", "W", "i", "d", "t", "h">> -> "lineWidth"
    [] text = <<"a", "t", "t", "r", "i", "b", "u", "t", "e", "W", "r", "a", "p", "p", "i", "n", "g">> -> "attributeWrapping"
    [] text = <<"n", "e", "w", "l", "i", "n", "e">> -> "newline"
    [] text = <<"s", "p", "a", "c", "e">> -> "space"
    [] text = <<"t", "a", "b">> -> "tab"
    [] text = <<"l", "f">> -> "lf"
    [] text = <<"c", "r", "l", "f">> -> "crlf"
    [] text = <<"a", "u", "t", "o">> -> "auto"
    [] text = <<"p", "r", "e", "s", "e", "r", "v", "e">> -> "preserve"
    [] OTHER -> "other"

\* parseCliArguments returned null
NoOptions == [null |-> TRUE]

\* s.split(sep), sep one character
RECURSIVE Split(_, _)
Split(s, sep) ==
  IF IndexOf(s, sep, 1) = 0 THEN <<s>>
  ELSE <<SubSeq(s, 1, IndexOf(s, sep, 1) - 1)>>
       \o Split(SubSeq(s, IndexOf(s, sep, 1) + 1, Len(s)), sep)

\* pushEntry of splitConfigEntries
pushEntry(entries, raw) ==
  LET eqIndex == IndexOf(raw, <<"=">>, 1)
      key == Trim(SubSeq(raw, 1, eqIndex - 1))
  IN IF Trim(raw) = <<>> THEN entries
     ELSE IF eqIndex = 0
     THEN Append(entries, [key |-> Trim(raw), value |-> <<"t", "r", "u", "e">>])
     ELSE IF key = <<>> THEN entries
     ELSE Append(entries,
                 [key |-> key,
                  value |-> Trim(SubSeq(raw, eqIndex + 1, Len(raw)))])

\* the character loop of splitConfigEntries, from position i; current is the
\* text from position start to position i - 1
RECURSIVE ScanEntries(_, _, _, _, _, _)
ScanEntries(fragment, i, start, inSingle, inDouble, entries) ==
  IF i > Len(fragment)
  THEN IF start < i THEN pushEntry(entries, SubSeq(fragment, start, i - 1))
       ELSE entries
  ELSE IF fragment[i] = "," /\ ~inSingle /\ ~inDouble
  THEN ScanEntries(fragment, i + 1, i + 1, inSingle, inDouble,
                   pushEntry(entries, SubSeq(fragment, start, i - 1)))
  ELSE ScanEntries(fragment, i + 1, start,
                   IF fragment[i] = "'" /\ ~inDouble THEN ~inSingle ELSE inSingle,
                   IF fragment[i] = "\"" /\ ~(fragment[i] = "'" /\ ~inDouble)
                      /\ ~inSingle
                   THEN ~inDouble ELSE inDouble,
                   entries)

splitConfigEntries(fragment) ==
  ScanEntries(fragment, 1, 1, FALSE, FALSE, <<>>)

\* Number(text) for a text of decimal digits
RECURSIVE NumberOf(_)
NumberOf(text) ==
  IF text = <<>> THEN 0
  ELSE 10 * NumberOf(SubSeq(text, 1, Len(text) - 1))
       + (CHOOSE d \in 0..9 : Digits[d + 1] = text[Len(text)])

\* coerceValue(raw); the values are numbers without a fraction, booleans,
\* null and strings (JSON objects and arrays are not among the inputs)
coerceValue(raw) ==
  LET trimmed == Trim(raw)
      digits == IF trimmed # <<>> /\ Head(trimmed) = "-" THEN Tail(trimmed)
                ELSE trimmed
      quoted(q) == Len(trimmed) >= 1 /\ Head(trimmed) = q
                   /\ trimmed[Len(trimmed)] = q
  IN IF trimmed = <<>> THEN ""
     ELSE IF quoted("\"") \/ quoted("'")
     THEN Atom(SubSeq(trimmed, 2, Len(trimmed) - 1))
     ELSE IF digits # <<>> /\ \A k \in 1..Len(digits) : digits[k] \in DigitChars
     THEN IF digits = trimmed THEN NumberOf(digits) ELSE 0 - NumberOf(digits)
     ELSE IF trimmed = <<"t", "r", "u", "e">> THEN TRUE
     ELSE IF trimmed = <<"f", "a", "l", "s", "e">> THEN FALSE
     ELSE IF trimmed = <<"n", "u", "l", "l">> THEN NullLineWidth
     ELSE Atom(trimmed)

\* the loop and the last assignment of setNestedConfigValue, on the parts of
\* the path; the value at a part that is not the last is an object exactly
\* when the part names one of the object-valued keys and is set
RECURSIVE SetNested(_, _, _)
SetNested(current, parts, value) ==
  IF Len(parts) = 1 THEN (Atom(parts[1]) :> value) @@ current
  ELSE (Atom(Head(parts)) :>
          SetNested(IF /\ Atom(Head(parts)) \in DOMAIN current
                       /\ Atom(Head(parts)) \in ObjectKeys
                    THEN current[Atom(Head(parts))] ELSE NoOverride,
                    Tail(parts), value))
       @@ current

setNestedConfigValue(target, path, value) ==
  LET parts == SelectSeq(Split(path, <<".">>), LAMBDA part : part # <<>>)
  IN IF parts = <<>> THEN target ELSE SetNested(target, parts, value)

\* the entries of the fragments, in the order parseConfigFragments sets them
RECURSIVE EntriesOf(_)
EntriesOf(fragments) ==
  IF fragments = <<>> THEN <<>>
  ELSE splitConfigEntries(Head(fragments)) \o EntriesOf(Tail(fragments))

\* result after the first n entries are set
RECURSIVE SetEntries(_, _)
SetEntries(entries, n) ==
  IF n = 0 THEN NoOverride
  ELSE setNestedConfigValue(SetEntries(entries, n - 1), entries[n].key,
                            coerceValue(entries[n].value))

parseConfigFragments(fragments) ==
  LET Set(entries) == SetEntries(entries, Len(entries))
  IN Set(EntriesOf(fragments))

\* a merge that replaces the objects of the target
mergeConfigInputsShallow(target, from) ==
  [k \in DOMAIN target \cup DOMAIN from |->
     IF k \in DOMAIN from THEN from[k] ELSE target[k]]

\* mergeConfigInputs(target, source): the target after the call
mergeConfigInputs(target, from) ==
  [k \in DOMAIN target \cup DOMAIN from |->
     IF k \notin DOMAIN from THEN target[k]
     ELSE IF k \in DOMAIN target /\ k \in ObjectKeys
     THEN [j \in DOMAIN target[k] \cup DOMAIN from[k] |->
             IF j \in DOMAIN from[k] THEN from[k][j] ELSE target[k][j]]
     ELSE from[k]]

\* the loop of parseCliArguments over argv, from position i; failed stands
\* for a return of null inside the loop
RECURSIVE ScanArguments(_, _, _)
ScanArguments(args, i, scan) ==
  IF i > Len(args) \/ scan.failed THEN scan
  ELSE IF scan.passthroughTargets
  THEN ScanArguments(args, i + 1, [scan EXCEPT !.targets = Append(@, args[i])])
  ELSE IF args[i] \in {<<"-", "-", "h", "e", "l", "p">>, <<"-", "h">>}
  THEN ScanArguments(args, i + 1, [scan EXCEPT !.requestedHelp = TRUE])
  ELSE IF args[i] \in {<<"-", "-", "w", "r", "i", "t", "e">>, <<"-", "w">>}
  THEN ScanArguments(args, i + 1, [scan EXCEPT !.write = TRUE])
  ELSE IF args[i] = <<"-", "-", "t", "r", "e", "e">>
  THEN ScanArguments(args, i + 1, [scan EXCEPT !.showTree = TRUE])
  ELSE IF args[i] = <<"-", "-", "f", "o", "r", "m", "a", "t">>
  THEN ScanArguments(args, i + 1, [scan EXCEPT !.showFormatted = TRUE])
  ELSE IF args[i] = <<"-", "-", "s", "e", "g", "m", "e", "n", "t", "s">>
  THEN ScanArguments(args, i + 1, [scan EXCEPT !.showSegments = TRUE])
  ELSE IF args[i] = <<"-", "-", "c", "o", "n", "f", "i", "g", "-", "f", "i", "l", "e">>
  THEN IF i + 1 > Len(args) \/ args[i + 1] = <<>>
          \/ StartsWithAt(args[i + 1], <<"-">>, 1)
       THEN [scan EXCEPT !.failed = TRUE]
       ELSE ScanArguments(args, i + 2,
                          [scan EXCEPT !.configFiles = Append(@, args[i + 1])])
  ELSE IF StartsWithAt(args[i], <<"-", "-", "c", "o", "n", "f", "i", "g", "-", "f", "i", "l", "e", "=">>, 1)
  THEN ScanArguments(args, i + 1,
                     [scan EXCEPT !.configFiles =
                        Append(@, SubSeq(args[i], 15, Len(args[i])))])
  ELSE IF args[i] = <<"-", "-", "c", "o", "n", "f", "i", "g">>
  THEN IF i + 1 > Len(args) \/ args[i + 1] = <<>>
          \/ StartsWithAt(args[i + 1], <<"-", "-">>, 1)
       THEN [scan EXCEPT !.failed = TRUE]
       ELSE ScanArguments(args, i + 2,
                          [scan EXCEPT !.configFragments = Append(@, args[i + 1])])
  ELSE IF StartsWithAt(args[i], <<"-", "-", "c", "o", "n", "f", "i", "g", "=">>, 1)
  THEN ScanArguments(args, i + 1,
                     [scan EXCEPT !.configFragments =
                        Append(@, SubSeq(args[i], 10, Len(args[i])))])
  ELSE IF args[i] = <<"-", "-">>
  THEN ScanArguments(args, i + 1, [scan EXCEPT !.passthroughTargets = TRUE])
  ELSE IF ~StartsWithAt(args[i], <<"-">>, 1)
  THEN ScanArguments(args, i + 1, [scan EXCEPT !.targets = Append(@, args[i])])
  ELSE [scan EXCEPT !.failed = TRUE]

\* the loop of parseCliArguments over the config files: a file that cannot be
\* read or parsed, or that holds no object, makes the function return null
RECURSIVE LoadConfigFiles(_, _, _)
LoadConfigFiles(configFiles, files, fileConfig) ==
  IF configFiles = <<>> THEN [failed |-> FALSE, config |-> fileConfig]
  ELSE IF \/ Head(configFiles) \notin DOMAIN files
          \/ files[Head(configFiles)].kind # "config"
  THEN [failed |-> TRUE, config |-> fileConfig]
  ELSE LoadConfigFiles(Tail(configFiles), files,
                       mergeConfigInputs(fileConfig,
                                         files[Head(configFiles)].json))

\* parseCliArguments(argv); a config that stays undefined is the empty
\* override, which formatERB treats alike
parseCliArguments(args, files) ==
  LET Options(scan, config) ==
        [showTree |-> scan.showTree, showFormatted |-> scan.showFormatted,
         showSegments |-> scan.showSegments, write |-> scan.write,
         targets |-> scan.targets, config |-> config]
      WithFragments(scan, loaded) ==
        IF loaded.failed THEN NoOptions
        ELSE IF scan.configFragments = <<>> THEN Options(scan, loaded.config)
        ELSE IF scan.configFiles # <<>>
        THEN Options(scan,
                     mergeConfigInputs(loaded.config,
                                       parseConfigFragments(scan.configFragments)))
        ELSE Options(scan, parseConfigFragments(scan.configFragments))
      Build(scan) ==
        IF scan.failed \/ scan.requestedHelp \/ scan.targets = <<>>
        THEN NoOptions
        ELSE WithFragments(scan,
                           LoadConfigFiles(scan.configFiles, files, NoOverride))
  IN Build(ScanArguments(args, 1,
                         [showTree |-> FALSE, showFormatted |-> FALSE,
                          showSegments |-> FALSE, configFragments |-> <<>>,
                          configFiles |-> <<>>, targets |-> <<>>,
                          requestedHelp |-> FALSE, write |-> FALSE,
                          passthroughTargets |-> FALSE, failed |-> FALSE]))

\* a.localeCompare(b) < 0 for file names of lower-case letters, digits and dots
CollationOrder == <<".", "/", "0", "1", "2", "3", "4", "5", "6", "7", "8", "9", "a", "b", "c", "d", "e", "f", "g", "h", "i", "j", "k", "l", "m", "n", "o", "p", "q", "r", "s", "t", "u", "v", "w", "x", "y", "z">>

CollationRank(char) ==
  IF \E k \in 1..Len(CollationOrder) : CollationOrder[k] = char
  THEN CHOOSE k \in 1..Len(CollationOrder) : CollationOrder[k] = char
  ELSE 0

RECURSIVE ComesBefore(_, _)
ComesBefore(a, b) ==
  IF b = <<>> THEN FALSE
  ELSE IF a = <<>> THEN TRUE
  ELSE IF Head(a) = Head(b) THEN ComesBefore(Tail(a), Tail(b))
  ELSE CollationRank(Head(a)) < CollationRank(Head(b))

\* Array.from(files).sort((a, b) => a.localeCompare(b))
RECURSIVE SortedPaths(_)
SortedPaths(paths) ==
  IF paths = {} THEN <<>>
  ELSE LET first == CHOOSE p \in paths : \A q \in paths \ {p} : ComesBefore(p, q)
       IN <<first>> \o SortedPaths(paths \ {first})

\* resolveTargetFiles(targets).files: the targets that are files with the
\* extension of a template
resolveTargetFiles(targets, files) ==
  SortedPaths({Trim(targets[k]) : k \in
                 {i \in 1..Len(targets) :
                    /\ Trim(targets[i]) # <<>>
                    /\ Trim(targets[i]) \in DOMAIN files
                    /\ files[Trim(targets[i])].kind = "erb"
                    /\ EndsWith(Trim(targets[i]), <<".", "e", "r", "b">>)}})

----------------------------------------------------------------------------
(* Specification of a run of the command line on up to MaxTargets template *)
(* files.  What runCli prints with console.log and process.stdout.write is *)
(* kept as a list of blocks, each with its kind, the file label of its     *)
(* heading and, for the formatted output, the text written; the messages   *)
(* of console.warn and console.error are not kept.                         *)

StdoutBlock(kind, label, text) == [kind |-> kind, label |-> label, text |-> text]

Template(content, readable, formatFails) ==
  [kind |-> "erb", content |-> content, readable |-> readable,
   formatFails |-> formatFails]

TemplatePool ==
  {Template(<<"<", "p", ">", "x", "<", "/", "p", ">", "\n">>, TRUE, FALSE),
   Template(<<"<", "p", ">", "x", "<", "/", "p", ">">>, TRUE, FALSE),
   Template(<<"<", "d", "i", "v", ">">>, TRUE, FALSE),
   Template(<<"<", "p", ">", "x", "<", "/", "p", ">">>, FALSE, FALSE),
   Template(<<"<", "p", ">", "x", "<", "/", "p", ">">>, TRUE, TRUE)}

TargetNames == <<<<"a", ".", "e", "r", "b">>, <<"b", ".", "e", "r", "b">>, <<"c", ".", "e", "r", "b">>, <<"d", ".", "e", "r", "b">>>>

TargetPool ==
  {TargetNames[k] : k \in 1..(IF MaxTargets < Len(TargetNames) THEN MaxTargets
                              ELSE Len(TargetNames))}

FlagPool == {<<>>, <<<<"-", "-", "w", "r", "i", "t", "e">>>>, <<<<"-", "-", "f", "o", "r", "m", "a", "t">>>>, <<<<"-", "w">>, <<"-", "-", "f", "o", "r", "m", "a", "t">>>>}

InitCli ==
  /\ pc = "cli"
  /\ fileSystem \in [TargetPool -> TemplatePool]
  /\ \E flags \in FlagPool, n \in 1..MaxTargets :
       \E targets \in [1..n -> TargetPool \cup {<<"n", "o", "n", "e", ".", "e", "r", "b">>}] :
         argv = flags \o targets
  /\ options = <<>>
  /\ targetFiles = <<>>
  /\ nextFile = 0
  /\ stdout = <<>>
  /\ exitCode = 0
  /\ PipelineIdle /\ ConfigIdle /\ IndentIdle

\* runCli up to the loop over the target files
RunCli ==
  /\ pc = "cli"
  /\ LET Start(files) ==
           /\ targetFiles' = files
           /\ nextFile' = 1
           /\ exitCode' = IF files = <<>> THEN 2 ELSE 0
           /\ pc' = IF files = <<>> THEN "exited" ELSE "files"
           /\ UNCHANGED stdout
         Run(parsed) ==
           /\ options' = parsed
           /\ IF "null" \in DOMAIN parsed
              THEN /\ stdout' = Append(stdout, StdoutBlock("usage", <<>>, <<>>))
                   /\ exitCode' = 0
                   /\ pc' = "exited"
                   /\ UNCHANGED <<targetFiles, nextFile>>
              ELSE Start(resolveTargetFiles(parsed.targets, fileSystem))
     IN Run(parseCliArguments(argv, fileSystem))
  /\ UNCHANGED <<argv, fileSystem>>
  /\ UNCHANGED <<pipelineVars, configVars, indentVars>>

shouldPrintFormattedOutput ==
  options.showFormatted \/ (~options.write /\ Len(targetFiles) = 1)

fileLabel(displayPath) == IF Len(targetFiles) > 1 THEN displayPath ELSE <<>>

\* what printFormattedOutput writes after its heading
printFormattedOutput(output) ==
  IF EndsWith(output, <<"\n">>) THEN output ELSE output \o <<"\n">>

\* a write that does not look at the diagnostics
writesFileDespiteErrors(write, hasErrorDiagnostics, output, content) ==
  write /\ output # content

\* the file is written: options.write && !hasErrorDiagnostics, and the output
\* differs from the source
writesFile(write, hasErrorDiagnostics, output, content) ==
  write /\ ~hasErrorDiagnostics /\ output # content

\* an exit code that the error diagnostics of a file overwrite
errorDiagnosticsCodeOverwriting(code, hasErrorDiagnostics) ==
  IF hasErrorDiagnostics THEN 1 ELSE code

\* if (hasErrorDiagnostics) exitCode = exitCode === 0 ? 1 : exitCode
errorDiagnosticsCode(code, hasErrorDiagnostics) ==
  IF hasErrorDiagnostics /\ code = 0 THEN 1 ELSE code

\* one pass of the loop of runCli over the target files
ProcessFile ==
  /\ pc = "files"
  /\ nextFile <= Len(targetFiles)
  /\ LET filePath == targetFiles[nextFile]
         Blocks(formatterResult, hasErrorDiagnostics, written) ==
           <<StdoutBlock("regions", fileLabel(filePath), <<>>)>>
           \o (IF options.showSegments
               THEN <<StdoutBlock("segments", fileLabel(filePath), <<>>)>>
               ELSE <<>>)
           \o (IF formatterResult.diagnostics # <<>>
               THEN <<StdoutBlock("diagnostics", fileLabel(filePath), <<>>)>>
               ELSE <<>>)
           \o (IF shouldPrintFormattedOutput
               THEN <<StdoutBlock("formatted", fileLabel(filePath),
                                  printFormattedOutput(formatterResult.output))>>
               ELSE <<>>)
           \o (IF /\ options.write /\ ~hasErrorDiagnostics
                  /\ ~shouldPrintFormattedOutput
               THEN <<StdoutBlock(IF written THEN "Formatted"
                                  ELSE "Already formatted", filePath, <<>>)>>
               ELSE <<>>)
           \o (IF options.showTree
               THEN <<StdoutBlock("tree", fileLabel(filePath), <<>>)>>
               ELSE <<>>)
         Write(formatterResult, hasErrorDiagnostics, written) ==
           /\ exitCode' = errorDiagnosticsCode(exitCode, hasErrorDiagnostics)
           /\ stdout' = stdout \o Blocks(formatterResult, hasErrorDiagnostics,
                                         written)
           /\ fileSystem' =
                IF written
                THEN [fileSystem EXCEPT ![filePath].content = formatterResult.output]
                ELSE fileSystem
         Report(formatterResult, hasErrorDiagnostics) ==
           Write(formatterResult, hasErrorDiagnostics,
                 writesFile(options.write, hasErrorDiagnostics,
                            formatterResult.output,
                            fileSystem[filePath].content))
         Format(formatterResult) ==
           Report(formatterResult,
                  \E k \in 1..Len(formatterResult.diagnostics) :
                     formatterResult.diagnostics[k].severity = "error")
     IN IF ~fileSystem[filePath].readable
        THEN exitCode' = Max(exitCode, 2) /\ UNCHANGED <<fileSystem, stdout>>
        ELSE IF fileSystem[filePath].formatFails
        THEN exitCode' = Max(exitCode, 3) /\ UNCHANGED <<fileSystem, stdout>>
        ELSE Format(formatERB(parseERB(fileSystem[filePath].content),
                              options.config))
  /\ nextFile' = nextFile + 1
  /\ UNCHANGED <<pc, argv, options, targetFiles>>
  /\ UNCHANGED <<pipelineVars, configVars, indentVars>>

\* return exitCode, after the loop
ReturnExitCode ==
  /\ pc = "files"
  /\ nextFile > Len(targetFiles)
  /\ pc' = "exited"
  /\ UNCHANGED <<cliVars, pipelineVars, configVars, indentVars>>

NextCli == RunCli \/ ProcessFile \/ ReturnExitCode

SpecCli == InitCli /\ [][NextCli]_vars

----------------------------------------------------------------------------
(* Specification of the configuration of the command line: up to           *)
(* MaxConfigFlags --config-file and --config flags, in any order and in    *)
(* both spellings, before one target.  Each flag comes with the settings   *)
(* its file or fragment makes, as a list of keys and values.               *)

Setting(key, value) == [key |-> key, value |-> value]

ConfigFlag(tokens, kind, settings) ==
  [tokens |-> tokens, kind |-> kind, settings |-> settings]

ConfigFlagPool ==
  {ConfigFlag(<<<<"-", "-", "c", "o", "n", "f", "i", "g", "-", "f", "i", "l", "e">>, <<"o", "n", "e", ".", "j", "s", "o", "n">>>>, "file",
              <<Setting(<<"indentation", "size">>, 4),
                Setting(<<"indentation", "style">>, "tab"),
                Setting(<<"html", "lineWidth">>, 80)>>),
   ConfigFlag(<<<<"-", "-", "c", "o", "n", "f", "i", "g", "-", "f", "i", "l", "e", "=", "t", "w", "o", ".", "j", "s", "o", "n">>>>, "file",
              <<Setting(<<"indentation", "size">>, 8),
                Setting(<<"newline">>, "crlf")>>),
   ConfigFlag(<<<<"-", "-", "c", "o", "n", "f", "i", "g", "-", "f", "i", "l", "e">>, <<"n", "o", "n", "e", ".", "j", "s", "o", "n">>>>, "file", <<>>),
   ConfigFlag(<<<<"-", "-", "c", "o", "n", "f", "i", "g">>, <<"i", "n", "d", "e", "n", "t", "a", "t", "i", "o", "n", ".", "s", "i", "z", "e", "=", "2">>>>, "fragment",
              <<Setting(<<"indentation", "size">>, 2)>>),
   ConfigFlag(<<<<"-", "-", "c", "o", "n", "f", "i", "g", "=", "h", "t", "m", "l", ".", "l", "i", "n", "e", "W", "i", "d", "t", "h", "=", "6", "0", ",", "n", "e", "w", "l", "i", "n", "e", "=", "l", "f">>>>, "fragment",
              <<Setting(<<"html", "lineWidth">>, 60),
                Setting(<<"newline">>, "lf")>>),
   ConfigFlag(<<<<"-", "-", "c", "o", "n", "f", "i", "g">>, <<"i", "n", "d", "e", "n", "t", "a", "t", "i", "o", "n", ".", "s", "i", "z", "e", "=", "3", ",", " ", "i", "n", "d", "e", "n", "t", "a", "t", "i", "o", "n", ".", "s", "t", "y", "l", "e", "=", "'", "s", "p", "a", "c", "e", "'", ",", "i", "n", "d", "e", "n", "t", "a", "t", "i", "o", "n", ".", "s", "i", "z", "e", "=", "6">>>>,
              "fragment",
              <<Setting(<<"indentation", "size">>, 3),
                Setting(<<"indentation", "style">>, "space"),
                Setting(<<"indentation", "size">>, 6)>>)}

ConfigFiles ==
  (<<"o", "n", "e", ".", "j", "s", "o", "n">> :>
     [kind |-> "config",
      json |-> [indentation |-> [size |-> 4, style |-> "tab"],
                html |-> [lineWidth |-> 80]]])
  @@ (<<"t", "w", "o", ".", "j", "s", "o", "n">> :>
        [kind |-> "config",
         json |-> [indentation |-> [size |-> 8], newline |-> "crlf"]])

RECURSIVE ArgumentsOf(_)
ArgumentsOf(flags) ==
  IF flags = <<>> THEN <<>> ELSE Head(flags).tokens \o ArgumentsOf(Tail(flags))

InitCliConfig ==
  /\ pc = "cli"
  /\ fileSystem = ConfigFiles @@ (<<"a", ".", "e", "r", "b">> :> Template(<<"<", "p", ">", "x", "<", "/", "p", ">">>, TRUE, FALSE))
  /\ \E n \in 0..MaxConfigFlags :
       \E flags \in [1..n -> ConfigFlagPool] :
         argv = ArgumentsOf(flags) \o <<<<"a", ".", "e", "r", "b">>>>
  /\ options = <<>>
  /\ targetFiles = <<>>
  /\ nextFile = 0
  /\ stdout = <<>>
  /\ exitCode = 0
  /\ PipelineIdle /\ ConfigIdle /\ IndentIdle

SpecCliConfig == InitCliConfig /\ [][NextCli]_vars

----------------------------------------------------------------------------
(* Claims about the placeholder builder *)

\* C1: for every region list, restoring the placeholder document gives back
\* the concatenation of the region texts in order.
C1_RoundTrip ==
  pc = "restored" => restored = ConcatTexts(regions)

\* C2: every placeholder entry's token occurs exactly once as a substring of
\* the placeholder document's html.
C2_TokenOccursOnce ==
  pc # "regions" =>
    \A k \in 1..Len(placeholderDocument.placeholders) :
      Occurrences(placeholderDocument.html,
                  placeholderDocument.placeholders[k].placeholder) = 1

\* the positions of the ruby regions, in document order
RubyPositions(rs) == {i \in 1..Len(rs) : rs[i].type = "ruby"}

\* C3: one entry per ruby region in document order: the k-th entry has id k
\* and refers to the k-th ruby region, so the entries are as many as the ruby
\* regions and regionIndex strictly increases along the list.
C3_OneEntryPerRubyRegion ==
  pc # "regions" =>
    LET ps == placeholderDocument.placeholders
    IN /\ Len(ps) = Cardinality(RubyPositions(regions))
       /\ \A k \in 1..Len(ps) :
            /\ ps[k].id = k - 1
            /\ ps[k].regionIndex + 1 \in RubyPositions(regions)
            /\ Cardinality({i \in RubyPositions(regions) :
                              i < ps[k].regionIndex + 1}) = k - 1
            /\ ps[k].region = regions[ps[k].regionIndex + 1]
       /\ \A k \in 1..(Len(ps) - 1) : ps[k].regionIndex < ps[k + 1].regionIndex

\* a document was built from a list that mixes ruby regions with other regions
C3_Witness ==
  /\ pc = "built"
  /\ Len(placeholderDocument.placeholders) >= 2
  /\ regions[1].type # "ruby"
  /\ Len(regions) > Len(placeholderDocument.placeholders)

----------------------------------------------------------------------------
(* Claims about parseERB *)

----------------------------------------------------------------------------
(* Claims about formatERB *)

\* C5: formatting the output of formatERB again with the same configuration
\* returns the same output.
C5_Idempotent ==
  pc = "reformatted" => reformatted.output = result.output

\* C6: the text of every ruby region of the source occurs, character for
\* character, in the output of formatERB.
C6_RubyTextPreserved ==
  pc = "formatted" =>
    \A k \in 1..Len(regions) :
      regions[k].type = "ruby" => IndexOf(result.output, regions[k].text, 1) # 0

\* the text with every token of an entry replaced by the text of its region
RECURSIVE ExpandTokens(_, _, _)
ExpandTokens(text, placeholders, i) ==
  IF i > Len(text) THEN <<>>
  ELSE LET n == TokenLengthAt(text, i)
           ks == {k \in 1..Len(placeholders) :
                    placeholders[k].placeholder = SubSeq(text, i, i + n - 1)}
       IN IF n > 0 /\ ks # {}
          THEN placeholders[CHOOSE k \in ks : TRUE].region.text
               \o ExpandTokens(text, placeholders, i + n)
          ELSE <<text[i]>> \o ExpandTokens(text, placeholders, i + 1)

\* the source text between the start tag and the end tag of every element
\* named pre, code, textarea, script or style among the nodes and below them
RECURSIVE SensitiveInnerTexts(_, _)
SensitiveInnerTexts(document, nodes) ==
  UNION {
    (IF nodes[k].tagName \in WHITESPACE_SENSITIVE_ELEMENTS
        /\ nodes[k].endTagFrom # 0
     THEN {ExpandTokens(SubSeq(document.html, nodes[k].startTagEnd + 1,
                               nodes[k].endTagFrom - 1),
                        document.placeholders, 1)}
     ELSE {})
    \cup SensitiveInnerTexts(document, nodes[k].children) : k \in 1..Len(nodes)}

\* C7: the characters between the start tag and the end tag of every pre,
\* code, textarea, script or style element, at any depth and also inside an
\* open Ruby block, occur unchanged in the output.
C7_SensitiveContentPreserved ==
  pc = "formatted" =>
    LET document == buildPlaceholderDocument(regions)
    IN \A inner \in SensitiveInnerTexts(document, ParseHtml(document.html).children) :
         IndexOf(result.output, inner, 1) # 0

\* C8: when whitespace.ensureFinalNewline is true the output ends with
\* exactly one line terminator, for every source, the empty one included.
C8_OneFinalNewline ==
  (pc = "formatted" /\ result.config.whitespace.ensureFinalNewline) =>
    SubSeq(result.output,
           TrailingTerminatorsFrom(result.output, Len(result.output)),
           Len(result.output)) \in {<<"\n">>, <<"\r", "\n">>}

\* C9: when whitespace.trimTrailingWhitespace is true no line of the output
\* ends with a space or a tab before its line terminator.
C9_NoTrailingWhitespace ==
  (pc = "formatted" /\ result.config.whitespace.trimTrailingWhitespace) =>
    \A i \in 1..Len(result.output) :
      result.output[i] \in {" ", "\t"} => ~TerminatorAt(result.output, i + 1)

\* the source as one segment, after the final newline policy
PassthroughOutput ==
  ensureFinalNewline(<<FormatSegment(0, "html", source, 0, "passthrough", -1)>>,
                     result.config)[1].formatted

\* C10: when the HTML parse of the placeholder document reports an error the
\* output is the source followed by the configured final newline, and the
\* diagnostics hold the analyzer's diagnostic of severity error.
C10_PassthroughOnHtmlError ==
  (pc = "formatted"
   /\ ParseHtml(buildPlaceholderDocument(regions).html).hasError) =>
    /\ result.output = PassthroughOutput
    /\ \E k \in 1..Len(result.diagnostics) :
         /\ result.diagnostics[k].severity = "error"
         /\ result.diagnostics[k].index = -1
         /\ result.diagnostics[k].message =
              "HTML parse reported syntax errors in placeholder document"

----------------------------------------------------------------------------
(* Claims about the configuration *)

\* the value a merged configuration must hold at the leaf j of the key k (at
\* the key k itself when k holds no object)
ExpectedLeaf(call, k, j) ==
  IF call.hasOverride /\ k \in DOMAIN call.override
     /\ j \in DOMAIN call.override[k]
  THEN call.override[k][j]
  ELSE DEFAULT_FORMATTER_CONFIG[k][j]

ExpectedValue(call, k) ==
  IF call.hasOverride /\ k \in DOMAIN call.override THEN call.override[k]
  ELSE DEFAULT_FORMATTER_CONFIG[k]

\* C11: after any sequence of formatERB calls DEFAULT_FORMATTER_CONFIG is
\* unchanged, and every returned config holds the override's value at every
\* leaf the override defines and the default's value at every other leaf.
C11_DefaultsUnchanged ==
  /\ pc = "config" => Deref(heap, DefaultsCell) = DEFAULT_FORMATTER_CONFIG
  /\ \A i \in 1..Len(returned) :
       LET config == Deref(heap, returned[i].config)
       IN /\ DOMAIN config = DOMAIN DEFAULT_FORMATTER_CONFIG
          /\ \A k \in DOMAIN config :
               IF k \in ObjectKeys
               THEN /\ DOMAIN config[k] = DOMAIN DEFAULT_FORMATTER_CONFIG[k]
                    /\ \A j \in DOMAIN config[k] :
                         config[k][j] = ExpectedLeaf(returned[i], k, j)
               ELSE config[k] = ExpectedValue(returned[i], k)

\* a call with an override of indentation.size was followed by a call without
\* one, which returned the default size
C11_Witness ==
  /\ Len(returned) >= 2
  /\ returned[1].hasOverride
  /\ "indentation" \in DOMAIN returned[1].override
  /\ Deref(heap, returned[1].config).indentation.size = 4
  /\ ~returned[2].hasOverride
  /\ Deref(heap, returned[2].config).indentation.size = 2

----------------------------------------------------------------------------
(* Claims about the indent counter *)

\* the part a logic directive plays in a block
DirectiveRole(code) ==
  IF StartsWithWord(code, <<"e", "n", "d">>) THEN "end"
  ELSE IF \E w \in {<<"e", "l", "s", "i", "f">>, <<"e", "l", "s", "e">>, <<"w", "h", "e", "n">>, <<"r", "e", "s", "c", "u", "e">>, <<"e", "n", "s", "u", "r", "e">>} :
            StartsWithWord(code, w)
  THEN "continuation"
  ELSE "opener"

\* the number of blocks open after the first n visits, -1 when the visits
\* are not the start of a well-nested sequence
RECURSIVE OpenBlocks(_, _)
OpenBlocks(vs, n) ==
  IF n = 0 THEN 0
  ELSE LET Step(open, role) ==
             IF open = -1 THEN -1
             ELSE IF role = "opener" THEN open + 1
             ELSE IF open = 0 THEN -1
             ELSE IF role = "end" THEN open - 1
             ELSE open
       IN Step(OpenBlocks(vs, n - 1),
               DirectiveRole(vs[n].info.entry.region.code))

\* the number of open blocks that enclose the n-th visited directive
EnclosingBlocks(vs, n) ==
  IF DirectiveRole(vs[n].info.entry.region.code) = "opener"
  THEN OpenBlocks(vs, n - 1)
  ELSE OpenBlocks(vs, n - 1) - 1

BlockLevelLogic(info) ==
  ~info.inline /\ ~info.inAttribute /\ info.entry.region.flavor = "logic"

C19_CounterArithmetic ==
  /\ rubyIndentCounter >= 0
  /\ \A n \in 1..Len(visited) :
       BlockLevelLogic(visited[n].info) =>
         LET effect == analyzeRubyIndentation(visited[n].info.entry.region)
             c == visited[n].currentRubyIndent
             d == visited[n].info.indentationLevel
         IN /\ visited[n].segment.indentationLevel
                 = d + Max(0, c + effect.before)
            /\ visited[n].nextIndent
                 = Max(0, Max(0, c + effect.before) + effect.after)
            /\ visited[n].nextIndent
                 = IF n < Len(visited) THEN visited[n + 1].currentRubyIndent
                   ELSE rubyIndentCounter

\* an end was visited with counter 0 at depth 1 and then an else, which
\* left the counter at 1
C19_Witness ==
  /\ Len(visited) = 2
  /\ BlockLevelLogic(visited[1].info)
  /\ DirectiveRole(visited[1].info.entry.region.code) = "end"
  /\ visited[1].currentRubyIndent = 0
  /\ visited[1].info.indentationLevel = 1
  /\ visited[1].segment.indentationLevel = 1
  /\ BlockLevelLogic(visited[2].info)
  /\ DirectiveRole(visited[2].info.entry.region.code) = "continuation"
  /\ visited[2].currentRubyIndent = 0
  /\ rubyIndentCounter = 1

----------------------------------------------------------------------------
(* Claims about the attribute layout *)

\* the indentation of the given depth under the configuration of the run
IndentAt(depth) == Repeat(<<" ">>, configInput.indentation.size * depth)

DepthOf(case) == IF case.nested THEN 1 ELSE 0

\* the open tag with its attributes on one line, separated by single spaces
InlineOpenTag(case) ==
  IndentAt(DepthOf(case)) \o <<"<">> \o case.tag \o <<" ">>
  \o JoinWith(AttributesOf(case), <<" ">>) \o <<">">>

\* the open tag with one attribute per line at depth+1 and its ">" on a line
\* of its own at the depth of the element
MultilineOpenTag(case) ==
  IndentAt(DepthOf(case)) \o <<"<">> \o case.tag \o <<"\n">>
  \o JoinWith([k \in 1..case.count |->
                 IndentAt(DepthOf(case) + 1) \o AttributePool[k]], <<"\n">>)
  \o <<"\n">> \o IndentAt(DepthOf(case)) \o <<">">>

LaidOutInline(case) ==
  /\ IndexOf(result.output, InlineOpenTag(case), 1) # 0
  /\ IndexOf(result.output, MultilineOpenTag(case), 1) = 0

LaidOutMultiline(case) ==
  /\ IndexOf(result.output, MultilineOpenTag(case), 1) # 0
  /\ IndexOf(result.output, InlineOpenTag(case), 1) = 0

\* the source from the first attribute to the last one contains a line break
BreakBetweenAttributes(case) ==
  case.count > 1 /\ IndexOf(case.between, <<"\n">>, 1) # 0

\* the run formatted the element of the case under the given wrapping mode
FormattedUnder(case, mode) ==
  /\ pc = "formatted"
  /\ source = SourceOf(case)
  /\ configInput.html.attributeWrapping = mode

\* C16: with attributeWrapping = preserve, the attributes of a start tag are
\* emitted one per line at depth+1 exactly when the source from the first
\* attribute to the last attribute contains a line break, and inline
\* separated by single spaces otherwise; a line break only between the tag
\* name and the first attribute does not give the multi-line layout.
C16_PreserveFollowsAttributeSlice ==
  \A case \in AttributeCases :
    FormattedUnder(case, "preserve") =>
      IF BreakBetweenAttributes(case) THEN LaidOutMultiline(case)
      ELSE LaidOutInline(case)

\* C17: with attributeWrapping = auto, a start tag with attributes is laid
\* out multi-line exactly when its original attributes contained a line break
\* or the line width is not null and the inlined open tag (indent, "<", tag
\* name, inline attributes, ">") is longer than the line width, and inline
\* otherwise.
C17_AutoWrapsOnBreakOrWidth ==
  \A case \in AttributeCases :
    FormattedUnder(case, "auto") =>
      IF \/ BreakBetweenAttributes(case)
         \/ /\ configInput.html.lineWidth # NullLineWidth
            /\ Len(InlineOpenTag(case)) > configInput.html.lineWidth
      THEN LaidOutMultiline(case)
      ELSE LaidOutInline(case)

\* C18: with attributeWrapping = force-multi-line, every start tag that has
\* at least one attribute is emitted with each attribute on a line of its own
\* at depth+1 and the ">" of the open tag on a line of its own at the depth
\* of the element, whatever the line width and the original layout.
C18_ForceWrapsEveryStartTag ==
  \A case \in AttributeCases :
    FormattedUnder(case, "force-multi-line") => LaidOutMultiline(case)

----------------------------------------------------------------------------
(* Claims about the command line *)

\* the elements of a list
Range(list) == {list[k] : k \in 1..Len(list)}

\* the formatter result of the file holds a diagnostic of severity error
HasErrorDiagnostics(file) ==
  /\ file.readable
  /\ ~file.formatFails
  /\ \E diagnostic \in Range(formatERB(parseERB(file.content),
                                       options.config).diagnostics) :
        diagnostic.severity = "error"

\* the target files runCli has processed
Processed == {targetFiles[k] : k \in 1..(nextFile - 1)}

\* C13: a file whose formatter result holds a diagnostic of severity error is
\* never written, with --write too, and from the moment runCli has processed
\* it the exit code is not zero, whatever the other files give.
C13_ErrorsBlockWrite ==
  /\ [](pc \in {"files", "exited"} =>
          \A path \in Processed :
             HasErrorDiagnostics(fileSystem[path]) => exitCode # 0)
  /\ [][pc = "files" =>
          \A path \in Range(targetFiles) :
             HasErrorDiagnostics(fileSystem[path]) =>
               fileSystem'[path] = fileSystem[path]]_vars

C13_Witness ==
  /\ pc = "exited"
  /\ options.write
  /\ Len(targetFiles) = 2
  /\ fileSystem[targetFiles[1]].content = <<"<", "d", "i", "v", ">">>
  /\ HasErrorDiagnostics(fileSystem[targetFiles[1]])
  /\ fileSystem[targetFiles[2]].content = <<"<", "p", ">", "x", "<", "/", "p", ">", "\n">>
  /\ \E k \in 1..Len(stdout) :
        stdout[k] = StdoutBlock("Formatted", targetFiles[2], <<>>)
  /\ exitCode = 1

\* the config flags of the command line, in order
RECURSIVE FlagsOf(_)
FlagsOf(args) ==
  LET starting == {flag \in ConfigFlagPool :
                     /\ Len(flag.tokens) <= Len(args)
                     /\ SubSeq(args, 1, Len(flag.tokens)) = flag.tokens}
      Rest(flag) ==
        <<flag>> \o FlagsOf(SubSeq(args, Len(flag.tokens) + 1, Len(args)))
  IN IF starting = {} THEN <<>> ELSE Rest(CHOOSE flag \in starting : TRUE)

ConfigKeys ==
  {<<"indentation", "size">>, <<"indentation", "style">>,
   <<"html", "lineWidth">>, <<"newline">>}

\* the index of the last flag of the kind that sets the key, 0 without one
LastSetting(flags, kind, key) ==
  LET setting == {i \in 1..Len(flags) :
                    /\ flags[i].kind = kind
                    /\ \E k \in 1..Len(flags[i].settings) :
                          flags[i].settings[k].key = key}
  IN IF setting = {} THEN 0
     ELSE CHOOSE i \in setting : \A j \in setting : j <= i

\* the last value the flag gives the key
SetValue(flag, key) ==
  LET ks == {k \in 1..Len(flag.settings) : flag.settings[k].key = key}
  IN flag.settings[CHOOSE k \in ks : \A j \in ks : j <= k].value

IsSet(config, key) ==
  /\ key[1] \in DOMAIN config
  /\ Len(key) = 1 \/ key[2] \in DOMAIN config[key[1]]

ValueAt(config, key) ==
  IF Len(key) = 1 THEN config[key[1]] ELSE config[key[1]][key[2]]

\* the key has the value the flag gives it
SetBy(config, key, flag) ==
  IsSet(config, key) /\ ValueAt(config, key) = SetValue(flag, key)

C15_PrintsEveryFileWithoutWrite ==
  (pc = "exited" /\ "null" \notin DOMAIN options /\ ~options.write) =>
    \A path \in Range(targetFiles) :
      (fileSystem[path].readable /\ ~fileSystem[path].formatFails) =>
        \E k \in 1..Len(stdout) :
          stdout[k] =
            StdoutBlock("formatted", fileLabel(path),
                        printFormattedOutput(
                          formatERB(parseERB(fileSystem[path].content),
                                    options.config).output))

----------------------------------------------------------------------------
(* Claims about the HTML text of the composer *)

\* the rounds of the loop that copied HTML text
HtmlSteps == {k \in 1..Len(visited) : visited[k].segment.kind = "html"}

\* the text of a round that adjustHtmlSegment was given
CopiedText(step) ==
  IF step.beforeToken THEN DropLineIndent(step.htmlText) ELSE step.htmlText

LinesOf(text) == Split(text, <<"\n">>)

AddedIndent(step) ==
  Repeat(IndentUnit(DEFAULT_FORMATTER_CONFIG), step.currentRubyIndent)

\* the first character of the line after its spaces and tabs is white space,
\* or the line has no such character
StartsBlank(line) ==
  LET i == SkipChars(line, 1, {" ", "\t"})
  IN i > Len(line) \/ line[i] \in WhiteSpace

----------------------------------------------------------------------------
(* Claims about the keyword fallback *)

\* the code starts with one of the words, as a whole word
StartsWithOneOf(code, words) == \E w \in words : StartsWithWord(code, w)

\* C22: the effect of a trimmed logic code that no parse-tree rule classified
\* is given by the first rule that matches: end gives {-1, 0}; else, elsif,
\* when, rescue and ensure give {-1, +1}; if, unless, while, until, for, case,
\* class, module, begin and def give {0, +1}; a code that ends with do or
\* do |...| gives {0, +1}; any other code gives {0, 0}.
C22_KeywordRules ==
  pc = "classified" =>
    \A k \in 1..Len(visited) :
      visited[k].effects =
        IF StartsWithOneOf(visited[k].code, {<<"e", "n", "d">>})
        THEN [before |-> -1, after |-> 0]
        ELSE IF StartsWithOneOf(visited[k].code,
                                {<<"e", "l", "s", "e">>, <<"e", "l", "s", "i", "f">>, <<"w", "h", "e", "n">>, <<"r", "e", "s", "c", "u", "e">>, <<"e", "n", "s", "u", "r", "e">>})
        THEN [before |-> -1, after |-> 1]
        ELSE IF StartsWithOneOf(visited[k].code,
                                {<<"i", "f">>, <<"u", "n", "l", "e", "s", "s">>, <<"w", "h", "i", "l", "e">>, <<"u", "n", "t", "i", "l">>, <<"f", "o", "r">>,
                                 <<"c", "a", "s", "e">>, <<"c", "l", "a", "s", "s">>, <<"m", "o", "d", "u", "l", "e">>, <<"b", "e", "g", "i", "n">>, <<"d", "e", "f">>})
        THEN [before |-> 0, after |-> 1]
        ELSE IF EndsWithDo(visited[k].code)
        THEN [before |-> 0, after |-> 1]
        ELSE [before |-> 0, after |-> 0]

----------------------------------------------------------------------------
(* Claims about the renderer *)

\* what the print infos say about the tokens, in the order they were pushed
Recorded(infos) ==
  [k \in 1..Len(infos) |->
     [id |-> infos[k].entry.id,
      sensitive |-> infos[k].sensitive,
      indentationLevel |-> infos[k].indentationLevel,
      inline |-> infos[k].inline]]

\* C23: every placeholder token in the content of a whitespace-sensitive
\* element (pre, code, textarea, script, style) has a print info with
\* sensitive true, the element's depth plus one as indentationLevel and inline
\* true, whatever the tag name.  The tokens of the document are the ones in
\* the element's content, numbered in their order.
C23_SensitiveTokensRecorded ==
  \A case \in RenderCases :
    (/\ pc = "rendered"
     /\ source = RenderSourceOf(case)
     /\ case.tag \in WHITESPACE_SENSITIVE_ELEMENTS)
    => Recorded(htmlPrint.placeholderPrintInfo)
         = [k \in 1..Len(placeholderDocument.placeholders) |->
              [id |-> k - 1,
               sensitive |-> TRUE,
               indentationLevel |-> (IF case.nested THEN 1 ELSE 0) + 1,
               inline |-> TRUE]]

\* C24: the html that renderHtmlDocument returns ends with a newline, for
\* every placeholder document, the empty one and the one of white space only
\* included.
C24_HtmlEndsWithNewline ==
  pc = "rendered" => EndsWith(htmlPrint.html, <<"\n">>)

----------------------------------------------------------------------------
(* Claims about a configuration outside its domain *)

\* C25: formatERB called with an indentation.size of zero or less does not
\* throw: it returns a FormatterResult with an output, and the size adds no
\* diagnostic of its own (the diagnostics are those of the same template
\* under the default size).
C25_SizeOutOfDomainAccepted ==
  (pc = "formatted" /\ configInput.indentation.size <= 0) =>
    /\ ~IsThrown(result)
    /\ "output" \in DOMAIN result
    /\ result.diagnostics
         = formatERB(regions, [indentation |->
                                 [style |-> configInput.indentation.style]]).diagnostics

----------------------------------------------------------------------------
(* Claims about placeholders the renderer did not print *)

\* the placeholder entries of the template whose token is not in the html
\* the renderer returned
LostEntries ==
  LET entries == buildPlaceholderDocument(regions).placeholders
  IN {k \in 1..Len(entries) :
        Occurrences(result.debug.placeholderHtml, entries[k].placeholder) = 0}

HasUnlocatedError ==
  \E k \in 1..Len(result.diagnostics) :
    /\ result.diagnostics[k].severity = "error"
    /\ result.diagnostics[k].index = -1

\* C26: when the token of a placeholder entry is not in the renderer's html,
\* the formatter result holds a diagnostic of severity error with index -1;
\* and a ruby region whose text is not in the output comes with such a
\* diagnostic.
C26_LostPlaceholderReported ==
  pc = "formatted" =>
    /\ LostEntries # {} => HasUnlocatedError
    /\ \A k \in 1..Len(regions) :
         (/\ regions[k].type = "ruby"
          /\ Occurrences(result.output, Trim(regions[k].text)) = 0)
         => HasUnlocatedError

----------------------------------------------------------------------------
(* Claims about the Ruby code formatter *)

\* the indentLevel after the k-th line
LevelAfter(k) ==
  IF k < Len(formattedLines) THEN formattedLines[k + 1].indentLevel
  ELSE indentLevel

\* the indent of a block level under the configuration of the run: level
\* times indentation.size columns, which the tab style writes as level tabs
LevelIndent(level) ==
  LET indentation == mergeConfig(DEFAULT_FORMATTER_CONFIG, configInput).indentation
  IN IF indentation.style = "tab" THEN Repeat(<<"\t">>, level)
     ELSE Repeat(<<" ">>, level * indentation.size)

\* the line is printed at the level: the indent of the level, then the text
PrintedAt(line, level) ==
  /\ SkipChars(line, 1, {" ", "\t"}) = Len(LevelIndent(level)) + 1
  /\ SubSeq(line, 1, Len(LevelIndent(level))) = LevelIndent(level)

\* C27: formatRubyCode prints every line that is not blank at the indent of
\* the current block level.  A line that starts with a block-start keyword,
\* or that holds do without end, raises the level for the lines after it; a
\* line that starts with elsif, else, when, rescue or ensure is printed one
\* level out and raises the level again; a line that starts with end is
\* printed one level out; a line that is a comment only is printed at the
\* current level; and the level is never below 0.  A keyword starts a line
\* when it is the line's first word.
C27_LinesFollowBlockLevel ==
  /\ indentLevel >= 0
  /\ \A k \in 1..Len(formattedLines) :
       LET line == Trim(formattedLines[k].rawLine)
           level == formattedLines[k].indentLevel
           code == splitComment(line).body
           startsMiddle == StartsWithOneOf(code, BLOCK_MIDDLE_KEYWORDS)
           startsEnd == StartsWithOneOf(code, BLOCK_END_KEYWORDS)
           opens == \/ StartsWithOneOf(code, BLOCK_START_KEYWORDS)
                    \/ (ContainsWord(code, <<"d", "o">>)
                        /\ ~ContainsWord(code, <<"e", "n", "d">>))
           out == IF level > 0 THEN level - 1 ELSE 0
       IN /\ level >= 0
          /\ IF line = <<>> THEN LevelAfter(k) = level
             ELSE IF code = <<>>
             THEN /\ PrintedAt(formattedLines[k].pushed[1], level)
                  /\ LevelAfter(k) = level
             ELSE IF startsMiddle
             THEN /\ PrintedAt(formattedLines[k].pushed[1], out)
                  /\ LevelAfter(k) = out + 1
             ELSE IF startsEnd
             THEN /\ PrintedAt(formattedLines[k].pushed[1], out)
                  /\ LevelAfter(k) = out
             ELSE /\ PrintedAt(formattedLines[k].pushed[1], level)
                  /\ LevelAfter(k) = IF opens THEN level + 1 ELSE level

----------------------------------------------------------------------------
(* Claims about the result of the composer *)

\* the formatted texts of the segments of a result, joined in list order
SegmentsText(segments) ==
  Join([k \in 1..Len(segments) |-> segments[k].formatted])

\* a token of the printed HTML had no print info and was skipped
TokenSkipped(diagnostics) ==
  \E k \in 1..Len(diagnostics) :
    diagnostics[k].message = "No placeholder info found"

\* C28: the output of a format run is the concatenation of the formatted
\* texts of its segments in list order, taken after the final-newline
\* adjustment, and every segment's index is its position in the list
\* (counted from 0), also when a token without print info was skipped.
C28_ResultSelfConsistent ==
  pc = "formatted" =>
    /\ result.output = SegmentsText(result.segments)
    /\ \A k \in 1..Len(result.segments) : result.segments[k].index = k - 1

\* a run that skipped a token without print info, put a Ruby segment after
\* it, and had its last segment changed by the final-newline adjustment
C28_Witness ==
  /\ pc = "formatted"
  /\ TokenSkipped(result.diagnostics)
  /\ \E k \in 3..Len(result.segments) : result.segments[k].kind = "ruby"
  /\ configInput = NoOverride
  /\ source # <<>> /\ source[Len(source)] # "\n"
  /\ result.output[Len(result.output)] = "\n"

----------------------------------------------------------------------------
(* Claims about the exit code of the command line *)

\* the code of one file: 2 when it cannot be read, 3 when formatting it
\* throws, 1 when its result has an error diagnostic, 0 otherwise
FileCode(file) ==
  IF ~file.readable THEN 2
  ELSE IF file.formatFails THEN 3
  ELSE LET HasError(diagnostics) ==
             \E k \in 1..Len(diagnostics) : diagnostics[k].severity = "error"
       IN IF HasError(formatERB(parseERB(file.content), options.config).diagnostics)
          THEN 1 ELSE 0

MaxOver(codes) == CHOOSE c \in codes : \A d \in codes : d <= c

\* the blocks of the regions that runCli printed for the k-th target
RegionBlocks(k) ==
  {b \in 1..Len(stdout) :
     /\ stdout[b].kind = "regions"
     /\ stdout[b].label = fileLabel(targetFiles[k])}

\* the targets that are read and formatted without a throw
Formattable ==
  {k \in 1..Len(targetFiles) :
     /\ fileSystem[targetFiles[k]].readable
     /\ ~fileSystem[targetFiles[k]].formatFails}

\* C29: runCli goes through every resolved target file, whatever happened
\* to the files before it (each file that is read and formatted has its
\* regions printed), and the exit code is the maximum of the codes of the
\* files, whatever their order.
C29_ExitCodeIsMaximum ==
  (pc = "exited" /\ targetFiles # <<>>) =>
    /\ nextFile = Len(targetFiles) + 1
    /\ \A k \in Formattable : RegionBlocks(k) # {}
    /\ Cardinality({b \in 1..Len(stdout) : stdout[b].kind = "regions"})
         = Cardinality(Formattable)
    /\ exitCode = MaxOver({FileCode(fileSystem[targetFiles[k]]) :
                             k \in 1..Len(targetFiles)})

\* a run over two files whose first file cannot be read or formatted and
\* whose second file is formatted with an error diagnostic
C29_Witness ==
  /\ pc = "exited"
  /\ Len(targetFiles) = 2
  /\ FileCode(fileSystem[targetFiles[1]]) \in {2, 3}
  /\ FileCode(fileSystem[targetFiles[2]]) = 1
  /\ RegionBlocks(2) # {}
  /\ exitCode = FileCode(fileSystem[targetFiles[1]])

----------------------------------------------------------------------------
(* Claims about the space between inline placeholders *)

\* the pairs of neighbouring tokens of the printed HTML that a single space
\* separates
SpacedTokens(html) ==
  LET Pairs(ms) ==
        {k \in 1..(Len(ms) - 1) :
           /\ ms[k + 1].from = ms[k].to + 2
           /\ html[ms[k].to + 1] = " "}
  IN Pairs(TokenMatches(html, 1))

\* the pairs of neighbouring Ruby segments that an HTML segment of a single
\* space separates
SpacedSegments(segments) ==
  {i \in 1..(Len(segments) - 2) :
     /\ segments[i].kind = "ruby"
     /\ segments[i + 1].kind = "html"
     /\ segments[i + 1].formatted = <<" ">>
     /\ segments[i + 2].kind = "ruby"}

\* C30: the composer keeps the space that the renderer leaves between two
\* inline placeholders of one line: every pair of tokens that a single
\* space separates in the printed HTML is a pair of Ruby segments with an
\* HTML segment of that space between them.
C30_InlineSpaceKept ==
  pc = "formatted" =>
    Cardinality(SpacedTokens(result.debug.placeholderHtml))
      = Cardinality(SpacedSegments(result.segments))

====
